---- MODULE Spec2Model ----
(***************************************************************************)
(* Model of the QtWebApp HTTP server core: the response writer             *)
(* (httpresponse.cpp), the connection handler (httpconnectionhandler.cpp), *)
(* the listener (httplistener.cpp) and the connection handler pool.        *)
(*                                                                         *)
(* Byte strings are TLA+ strings; a socket's output is the string of all   *)
(* bytes written to it.                                                    *)
(***************************************************************************)
EXTENDS Integers, Sequences, FiniteSets, TLC

VARIABLES
    debugBuild,   \* TRUE: Q_ASSERT is compiled in (a failed assertion aborts)
    \* ---- one request dispatched by HttpConnectionHandler::read ----
    rq,           \* the request whose status is complete
    rx,           \* the HttpResponse of that request and its socket
    phase,        \* "complete", "service", "caught", "finished" or "aborted"
    closeConnection,  \* read()'s local closeConnection
    nops,         \* number of operations the request handler has performed
    atInvoke,     \* response headers and closeConnection when service() was called
    fw,           \* what the first call of write() saw and decided
    calls,        \* the operations performed on the response, in order
    \* ---- the server: listener, pool, connection handlers, peers ----
    settings,     \* the configuration: [maxThreads, minThreads]
    headersHandler,   \* the headersHandler of the listener and of each handler
    pool,         \* HttpConnectionHandlerPool: the handlers, in creation order
    busy,         \* HttpConnectionHandler::busy of each handler
    socket,       \* each handler's socket: [open, fd, out]
    readTimer,    \* each handler's readTimer: stopped, just started, or running for a while
    currentRequest,   \* each handler's currentRequest: "null" or [status, ...]
    queued,       \* each handler's queued handleConnection calls (descriptors)
    fds,          \* each accepted descriptor: [state, inbuf, sends, out]
    lentTo,       \* the descriptor each handler was last lent for
    trace,        \* what each handler did on its connection, in order
    crashed,      \* a failed Q_ASSERT has aborted the process
    \* ---- HttpSessionStore and the threads that call it ----
    sessions,     \* the keys of the QMap sessions
    mutexOwner,   \* the thread that holds HttpSessionStore::mutex, or NoThread
    storePc,      \* each thread's position in the store's code
    sessionId,    \* each thread's local sessionId (NoSession: empty)
    allowCreate,  \* each thread's argument allowCreate
    created,      \* number of sessions created so far
    storeAborted, \* undefined behaviour has ended the process
    \* ---- requests handled asynchronously ----
    currentRequestID, \* each handler's currentRequestID
    m_canceller,  \* each handler's m_canceller: the invocation whose token it holds
    threads,      \* the threads started by callService, in the order of the calls
    eventQueue,   \* each handler's thread: the queued signals it has to deliver
    cntSkip,      \* the static counter of HttpRequestHandler::callService
    alog          \* socket writes, cancel() calls and ignored completions, in order

respVars == <<rq, rx, phase, closeConnection, nops, atInvoke, fw, calls>>
serverVars == <<settings, headersHandler, pool, busy, socket, readTimer, currentRequest, queued,
                fds, lentTo, trace, crashed>>
storeVars == <<sessions, mutexOwner, storePc, sessionId, allowCreate, created, storeAborted>>
asyncVars == <<currentRequestID, m_canceller, threads, eventQueue, cntSkip, alog>>
vars == <<debugBuild, respVars, serverVars, storeVars, asyncVars>>

(***************************************************************************)
(* Bounds of the model.                                                    *)
(***************************************************************************)
MaxOps == 3          \* operations a request handler performs on one response
MaxThreads == 2      \* the setting maxThreads
MinThreads == 1      \* the setting minThreads
MaxSockets == MaxThreads + 1     \* connections the peers open
MaxSends == 2        \* pieces of data a peer sends on one connection
MaxCallers == 2      \* threads that call the session store
MaxSessions == 2     \* sessions the store creates
MaxCalls == 12       \* calls of callService
MaxDispatch == 2     \* requests given to callService

(***************************************************************************)
(* Byte strings.                                                           *)
(***************************************************************************)
DigitChars == <<"0","1","2","3","4","5","6","7","8","9","a","b","c","d","e","f">>

RECURSIVE number(_, _)
\* QByteArray::number(n, base) for n >= 0
number(n, base) ==
    IF n < base THEN DigitChars[n + 1]
    ELSE number(n \div base, base) \o DigitChars[(n % base) + 1]

UpperChars == "ABCDEFGHIJKLMNOPQRSTUVWXYZ"
LowerChars == "abcdefghijklmnopqrstuvwxyz"

RECURSIVE foldChar(_, _)
\* the case-folded form of the one-character string c
foldChar(c, i) ==
    IF i > Len(UpperChars) THEN c
    ELSE IF SubSeq(UpperChars, i, i) = c THEN SubSeq(LowerChars, i, i)
    ELSE foldChar(c, i + 1)

RECURSIVE toCaseFolded(_)
toCaseFolded(s) ==
    IF Len(s) = 0 THEN "" ELSE foldChar(Head(s), 1) \o toCaseFolded(Tail(s))

\* QString::compare(a, b, Qt::CaseInsensitive) == 0
compareCaseInsensitive(a, b) == toCaseFolded(a) = toCaseFolded(b)

(***************************************************************************)
(* HttpSessionStore.  Request handlers call getSession and removeSession   *)
(* on their own threads (Callers); sessionTimerEvent runs on the thread of *)
(* the store (TimerThread).  A session is known by its id; the map         *)
(* sessions is the set of ids it holds.  Every function starts with the    *)
(* statement  std::lock_guard{mutex};  which makes a temporary: the mutex  *)
(* is locked by the constructor and unlocked by the destructor at the end  *)
(* of that statement.                                                      *)
(***************************************************************************)
NoThread == -1
NoSession == 0
TimerThread == 0
Callers == 1..MaxCallers
StoreThreads == {TimerThread} \cup Callers
SessionIds == 1..MaxSessions

StoreInit ==
    /\ sessions = {}
    /\ mutexOwner = NoThread
    /\ storePc = [t \in StoreThreads |-> "idle"]
    /\ sessionId = [t \in StoreThreads |-> NoSession]
    /\ allowCreate = [t \in StoreThreads |-> FALSE]
    /\ created = 0
    /\ storeAborted = FALSE

\* thread t goes from position from to position to
goes(t, from, to) ==
    /\ ~storeAborted
    /\ storePc[t] = from
    /\ storePc' = [storePc EXCEPT ![t] = to]
    /\ UNCHANGED <<debugBuild, respVars, serverVars, asyncVars>>

\* std::lock_guard{mutex}; the constructor of the temporary
guardLocks(t, from, to) ==
    /\ goes(t, from, to)
    /\ mutexOwner = NoThread
    /\ mutexOwner' = t
    /\ UNCHANGED <<sessions, sessionId, allowCreate, created, storeAborted>>

\* ... and its destructor, at the end of the same statement
guardUnlocks(t, from, to) ==
    /\ goes(t, from, to)
    /\ mutexOwner' = NoThread
    /\ UNCHANGED <<sessions, sessionId, allowCreate, created, storeAborted>>

\* mutex.unlock() by a thread that does not hold the mutex is undefined: the call has
\* no effect, or takes the mutex from the thread that holds it, or ends the process
unlockNotOwned(t, from, to) ==
    /\ goes(t, from, to)
    /\ \/ UNCHANGED <<mutexOwner, storeAborted>>
       \/ mutexOwner' = NoThread /\ UNCHANGED storeAborted
       \/ storeAborted' = TRUE /\ UNCHANGED mutexOwner
    /\ UNCHANGED <<sessions, sessionId, allowCreate, created>>

\* lines 54-56: a request handler calls getSession(request, response, allowCreate);
\* cookie is the session id in the request's or response's cookie
CallGetSession(t) ==
    \E cookie \in {NoSession} \cup SessionIds, create \in BOOLEAN :
        /\ goes(t, "idle", "getSessionId")
        /\ sessionId' = [sessionId EXCEPT ![t] = cookie]
        /\ allowCreate' = [allowCreate EXCEPT ![t] = create]
        /\ UNCHANGED <<sessions, mutexOwner, created, storeAborted>>

\* line 32
GetSessionIdGuard(t) ==
    \/ guardLocks(t, "getSessionId", "getSessionIdGuard")
    \/ guardUnlocks(t, "getSessionIdGuard", "contains")

\* lines 34-51: the id is cleared when the map does not contain it
GetSessionIdContains(t) ==
    /\ goes(t, "contains", "getSession")
    /\ sessionId' = [sessionId EXCEPT ![t] = IF @ \in sessions THEN @ ELSE NoSession]
    /\ UNCHANGED <<sessions, mutexOwner, allowCreate, created, storeAborted>>

\* line 57
GetSessionGuard(t) ==
    \/ guardLocks(t, "getSession", "getSessionGuard")
    \/ guardUnlocks(t, "getSessionGuard", "value")

\* lines 59-62: sessions.value(sessionId) is a null session when the id is not a key
GetSessionValue(t) ==
    /\ goes(t, "value",
            IF sessionId[t] # NoSession /\ sessionId[t] \in sessions
            THEN "unlockFound" ELSE "create")
    /\ UNCHANGED <<sessions, mutexOwner, sessionId, allowCreate, created, storeAborted>>

\* lines 64-72: the session was found
GetSessionFound(t) ==
    /\ unlockNotOwned(t, "unlockFound", "idle")

\* lines 76-87: a new session is created and inserted; lines 90-91: a null session
GetSessionCreate(t) ==
    IF allowCreate[t]
    THEN /\ created < MaxSessions
         /\ goes(t, "create", "unlockCreated")
         /\ created' = created + 1
         /\ sessions' = sessions \cup {created + 1}
         /\ sessionId' = [sessionId EXCEPT ![t] = created + 1]
         /\ UNCHANGED <<mutexOwner, allowCreate, storeAborted>>
    ELSE /\ goes(t, "create", "idle")
         /\ sessionId' = [sessionId EXCEPT ![t] = NoSession]
         /\ UNCHANGED <<sessions, mutexOwner, allowCreate, created, storeAborted>>

\* line 86
GetSessionCreated(t) ==
    /\ unlockNotOwned(t, "unlockCreated", "idle")

\* lines 127-131: removeSession(session)
CallRemoveSession(t) ==
    \E id \in SessionIds :
        /\ goes(t, "idle", "removeSession")
        /\ sessionId' = [sessionId EXCEPT ![t] = id]
        /\ UNCHANGED <<sessions, mutexOwner, allowCreate, created, storeAborted>>

\* line 129
RemoveSessionGuard(t) ==
    \/ guardLocks(t, "removeSession", "removeSessionGuard")
    \/ guardUnlocks(t, "removeSessionGuard", "remove")

\* line 130
RemoveSessionRemove(t) ==
    /\ goes(t, "remove", "idle")
    /\ sessions' = sessions \ {sessionId[t]}
    /\ UNCHANGED <<mutexOwner, sessionId, allowCreate, created, storeAborted>>

\* lines 105-107: cleanupTimer fires
SessionTimerEventGuard ==
    \/ guardLocks(TimerThread, "idle", "sessionTimerEventGuard")
    \/ guardUnlocks(TimerThread, "sessionTimerEventGuard", "sweep")

\* lines 109-122: the sessions whose last access is too long ago are erased
SessionTimerEventSweep ==
    /\ goes(TimerThread, "sweep", "idle")
    /\ \E expired \in SUBSET sessions : sessions' = sessions \ expired
    /\ UNCHANGED <<mutexOwner, sessionId, allowCreate, created, storeAborted>>

NextSession ==
    \/ \E t \in Callers : CallGetSession(t)
    \/ \E t \in Callers : GetSessionIdGuard(t)
    \/ \E t \in Callers : GetSessionIdContains(t)
    \/ \E t \in Callers : GetSessionGuard(t)
    \/ \E t \in Callers : GetSessionValue(t)
    \/ \E t \in Callers : GetSessionFound(t)
    \/ \E t \in Callers : GetSessionCreate(t)
    \/ \E t \in Callers : GetSessionCreated(t)
    \/ \E t \in Callers : CallRemoveSession(t)
    \/ \E t \in Callers : RemoveSessionGuard(t)
    \/ \E t \in Callers : RemoveSessionRemove(t)
    \/ SessionTimerEventGuard
    \/ SessionTimerEventSweep

(***************************************************************************)
(* HttpResponse.  headers is the QMap<QByteArray,QByteArray>: a function   *)
(* whose domain is the set of names present.  The record also holds the    *)
(* socket the response writes to (sockOpen, out) and a log of what each    *)
(* writeToSocket call was made for.                                        *)
(***************************************************************************)
\* the header names the model uses, in the key order of the QMap
HeaderOrder ==
    <<"Connection", "Content-Length", "Location", "Transfer-Encoding", "connection">>

value(headers, name, default) ==
    IF name \in DOMAIN headers THEN headers[name] ELSE default

insert(headers, name, v) ==
    [n \in (DOMAIN headers) \cup {name} |-> IF n = name THEN v ELSE headers[n]]

EmptyHeaders == [n \in {} |-> ""]

HttpResponse(sockOpen, out) ==
    [ statusCode |-> 200, statusText |-> "OK", headers |-> EmptyHeaders,
      sentHeaders |-> FALSE, sentLastPart |-> FALSE, chunkedMode |-> FALSE,
      sockOpen |-> sockOpen, out |-> out,
      writeError |-> FALSE, failed |-> FALSE,
      aborted |-> FALSE, log |-> <<>>, emitted |-> <<>> ]

\* a failed Q_ASSERT: aborts the process when assertions are compiled in
Q_ASSERT_fails(cond) == debugBuild /\ ~cond

abort(x) == [x EXCEPT !.aborted = TRUE]

\* lines 129-150; writeError: socket->write() returns -1, failed: writeToSocket has
\* returned false
writeToSocket(x, kind, data) ==
    IF x.sockOpen /\ Len(data) > 0
    THEN IF x.writeError
         THEN [x EXCEPT !.failed = TRUE]
         ELSE [x EXCEPT !.out = @ \o data, !.log = Append(@, <<kind, data>>)]
    ELSE x

setHeader(x, name, v) ==
    IF x.aborted THEN x
    ELSE IF Q_ASSERT_fails(x.sentHeaders = FALSE) THEN abort(x)
    ELSE [x EXCEPT !.headers = insert(@, name, v)]

setStatus(x, code, description) ==
    IF x.aborted THEN x
    ELSE [x EXCEPT !.statusCode = code, !.statusText = description]

RECURSIVE headerLines(_, _)
headerLines(headers, i) ==
    IF i > Len(HeaderOrder) THEN ""
    ELSE (IF HeaderOrder[i] \in DOMAIN headers
          THEN HeaderOrder[i] \o ": " \o headers[HeaderOrder[i]] \o "\r\n"
          ELSE "")
         \o headerLines(headers, i + 1)

writeHeaders(x) ==
    IF x.aborted THEN x
    ELSE IF Q_ASSERT_fails(x.sentHeaders = FALSE) THEN abort(x)
    ELSE LET buffer == "HTTP/1.1 " \o number(x.statusCode, 10) \o " " \o x.statusText
                       \o "\r\n" \o headerLines(x.headers, 1) \o "\r\n"
             y == writeToSocket(x, "header", buffer)
         IN  [y EXCEPT !.sentHeaders = TRUE, !.emitted = Append(@, x.headers)]

\* the size of a chunk, in decimal
chunkSizeDecimal(data) == number(Len(data), 10)

\* line 188: the size of a chunk, in hexadecimal
chunkSize(data) == number(Len(data), 16)

write(x, data, lastPart) ==
    IF x.aborted THEN x
    ELSE IF Q_ASSERT_fails(x.sentLastPart = FALSE) THEN abort(x)
    ELSE
    LET connectionValue == value(x.headers, "Connection", value(x.headers, "connection", ""))
        connectionClose == compareCaseInsensitive(connectionValue, "close")
        x1 == IF x.sentHeaders = FALSE
              THEN writeHeaders(
                     IF lastPart
                     THEN [x EXCEPT !.headers =
                              insert(@, "Content-Length", number(Len(data), 10))]
                     ELSE IF ~connectionClose
                     THEN [x EXCEPT !.headers = insert(@, "Transfer-Encoding", "chunked"),
                                    !.chunkedMode = TRUE]
                     ELSE x)
              ELSE x
        x2 == IF Len(data) > 0
              THEN IF x1.chunkedMode
                   THEN writeToSocket(
                          writeToSocket(
                            writeToSocket(
                              writeToSocket(x1, "body", chunkSize(data)),
                              "body", "\r\n"),
                            "body", data),
                          "body", "\r\n")
                   ELSE writeToSocket(x1, "body", data)
              ELSE x1
        x3 == IF lastPart
              THEN [(IF x2.chunkedMode THEN writeToSocket(x2, "body", "0\r\n\r\n") ELSE x2)
                        EXCEPT !.sentLastPart = TRUE]
              ELSE x2
    IN  x3

\* document is the text rapidjson::Writer produces for the document
writeJSON(x, document) ==
    IF x.aborted THEN x
    ELSE LET y == writeHeaders(x)
         IN  IF y.aborted THEN y ELSE writeToSocket(y, "body", document)

hasSentLastPart(x) == x.sentLastPart

redirect(x, url) ==
    write(setHeader(setStatus(x, 303, "See Other"), "Location", url), "Redirect", TRUE)

(***************************************************************************)
(* Operations a request handler performs on the response.  Every           *)
(* operation is a record [op, a, b, last].                                 *)
(***************************************************************************)
Payloads == {"", "hello", "0123456789abcdefg"}
JsonDocuments == {"{\"ok\":true}"}
RedirectUrls == {"/login"}
HandlerHeaders ==
    { <<"Connection", "close">>, <<"Connection", "Keep-Alive">>,
      <<"connection", "Close">>, <<"Content-Length", "5">> }

HandlerStatuses == { <<404, "Not Found">> }

SetHeaderOp(name, v) == [op |-> "setHeader", a |-> name, b |-> v, last |-> FALSE]
SetStatusOp(statusCode, description) ==
    [op |-> "setStatus", a |-> description, b |-> "", last |-> FALSE, code |-> statusCode]
WriteOp(data, lastPart) == [op |-> "write", a |-> data, b |-> "", last |-> lastPart]
WriteJSONOp(document) == [op |-> "writeJSON", a |-> document, b |-> "", last |-> FALSE]
RedirectOp(url) == [op |-> "redirect", a |-> url, b |-> "", last |-> TRUE]
\* service() throws: control leaves the request handler
ThrowOp == [op |-> "throw", a |-> "", b |-> "", last |-> FALSE]

applyOp(x, o) ==
    CASE o.op = "setHeader" -> setHeader(x, o.a, o.b)
      [] o.op = "setStatus" -> setStatus(x, o.code, o.a)
      [] o.op = "write"     -> write(x, o.a, o.last)
      [] o.op = "writeJSON" -> writeJSON(x, o.a)
      [] o.op = "redirect"  -> redirect(x, o.a)
      [] o.op = "throw"     -> x

\* the response as the call of write() made by operation o finds it
beforeWrite(x, o) ==
    IF o.op = "redirect" THEN setHeader(setStatus(x, 303, "See Other"), "Location", o.a)
    ELSE x

writeData(o) == IF o.op = "redirect" THEN "Redirect" ELSE o.a

callsWrite(x, o) ==
    /\ o.op \in {"write", "redirect"}
    /\ ~beforeWrite(x, o).aborted
    /\ ~Q_ASSERT_fails(beforeWrite(x, o).sentLastPart = FALSE)

(***************************************************************************)
(* HttpConnectionHandler::read, the part that dispatches one complete      *)
(* request (lines 260-344).  A request is [version, connection]:           *)
(* connection is the value of its Connection header, "" when absent.       *)
(***************************************************************************)
Versions == {"HTTP/1.1", "HTTP/1.0", "http/1.0"}
RequestConnection == {"", "close", "Close", "keep-alive"}
Requests == [version : Versions, connection : RequestConnection]

\* the same with both comparisons case-sensitive
prepareResponseCaseSensitive(request, sockOpen, out) ==
    LET response == HttpResponse(sockOpen, out)
    IN  IF request.connection = "close" \/ request.version = "HTTP/1.0"
        THEN [x |-> setHeader(response, "Connection", "close"), closeConnection |-> TRUE]
        ELSE [x |-> response, closeConnection |-> FALSE]

\* lines 266-284: the response and closeConnection before service() is called
prepareResponse(request, sockOpen, out) ==
    LET response == HttpResponse(sockOpen, out)
        closeHeader == compareCaseInsensitive(request.connection, "close")
        http1_0 == compareCaseInsensitive(request.version, "HTTP/1.0")
    IN  IF closeHeader
        THEN [x |-> setHeader(response, "Connection", "close"), closeConnection |-> TRUE]
        ELSE IF http1_0
        THEN [x |-> setHeader(response, "Connection", "close"), closeConnection |-> TRUE]
        ELSE [x |-> response, closeConnection |-> FALSE]

\* lines 297-301: finalize sending the response if not already done
finalizeResponse(x) ==
    IF ~hasSentLastPart(x) THEN write(x, "", TRUE) ELSE x

\* lines 305-328: find out whether the connection must be closed
mustClose(close, headers) ==
    IF ~close
    THEN LET closeResponse ==
                 compareCaseInsensitive(value(headers, "Connection", ""), "close")
             hasContentLength == "Content-Length" \in DOMAIN headers
             hasChunkedMode ==
                 compareCaseInsensitive(value(headers, "Transfer-Encoding", ""), "chunked")
         IN  IF closeResponse THEN TRUE
             ELSE IF ~hasContentLength THEN ~hasChunkedMode
             ELSE FALSE
    ELSE TRUE

\* lines 330-335: disconnectFromHost after the pending bytes are written
disconnectFromHost(x) == [x EXCEPT !.sockOpen = FALSE]

(***************************************************************************)
(* The server's state.  Handlers are numbered in the order of creation; a  *)
(* handler that is not in the pool has the state its constructor gives it. *)
(* There is one more handler identity than the pool is allowed to create.  *)
(* Descriptors are numbered in the order the listener accepts them.        *)
(***************************************************************************)
Handlers == 1..(MaxThreads + 1)
Descriptors == 1..MaxSockets
NoDescriptor == 0
NoHandler == 0

\* HttpError: [statusCode, errorText]
NoHttpError == [statusCode |-> 0, errorText |-> ""]

\* a headers-checking chain: the empty one, or one with a predicate that fails some
\* requests
NoChain == "none"
StrictChain == "strict"
Chains == {NoChain, StrictChain}

\* the listener among the owners of a headersHandler
Listener == 0

NullRequest ==
    [status |-> "null", version |-> "", connection |-> "", seq |-> 0, error |-> NoHttpError,
     chain |-> NoChain, bad |-> FALSE]
ClosedSocket == [open |-> FALSE, fd |-> NoDescriptor, out |-> ""]

\* readTimer (single shot): not active, started with the whole interval ahead, or
\* active with some of its interval gone
TimerStopped == "stopped"
TimerStarted == "started"
TimerRunning == "running"
UnusedDescriptor == [state |-> "unused", inbuf |-> <<>>, sends |-> 0, last |-> "", out |-> ""]

\* the server with the settings maxThreads and minThreads
ServerWith(maxThreads, minThreads) ==
    /\ settings = [maxThreads |-> maxThreads, minThreads |-> minThreads]
    /\ headersHandler = [o \in {Listener} \cup Handlers |-> NoChain]
    /\ pool = [i \in 1..minThreads |-> i]
    /\ busy = [h \in Handlers |-> FALSE]
    /\ socket = [h \in Handlers |-> ClosedSocket]
    /\ readTimer = [h \in Handlers |-> TimerStopped]
    /\ currentRequest = [h \in Handlers |-> NullRequest]
    /\ queued = [h \in Handlers |-> <<>>]
    /\ lentTo = [h \in Handlers |-> NoDescriptor]
    /\ trace = [h \in Handlers |-> <<>>]
    /\ crashed = FALSE

ServerInit == ServerWith(MaxThreads, MinThreads)

\* the server while one response is examined on its own: no peer connects
ServerAtRest ==
    /\ ServerInit
    /\ fds = [d \in Descriptors |-> [UnusedDescriptor EXCEPT !.state = "never"]]

NoToken == 0

\* httprequesthandler.cpp line 32: static std::atomic<int> cntSkip = 10
CntSkipStart == 10

\* no request was given to callService.  The constructor (lines 22-56) leaves
\* currentRequestID without a value: it starts with whatever the memory holds
AsyncInit(garbage) ==
    /\ \E v \in garbage : currentRequestID = [h \in Handlers |-> v]
    /\ m_canceller = [h \in Handlers |-> NoToken]
    /\ threads = <<>>
    /\ eventQueue = [h \in Handlers |-> <<>>]
    /\ cntSkip = CntSkipStart
    /\ alog = <<>>

AsyncAtRest == AsyncInit({0})

NoFirstWrite ==
    [ called |-> FALSE, last |-> FALSE, len |-> 0, sentBefore |-> FALSE,
      before |-> EmptyHeaders, after |-> EmptyHeaders, chunked |-> FALSE ]

firstWrite(x, data, lastPart) ==
    [ called |-> TRUE, last |-> lastPart, len |-> Len(data),
      sentBefore |-> x.sentHeaders, before |-> x.headers,
      after |-> write(x, data, lastPart).headers,
      chunked |-> write(x, data, lastPart).chunkedMode ]

InitResponse ==
    /\ debugBuild \in BOOLEAN
    /\ rq \in Requests
    /\ rx = HttpResponse(TRUE, "")
    /\ phase = "complete"
    /\ closeConnection = FALSE
    /\ nops = 0
    /\ atInvoke = [headers |-> EmptyHeaders, closeConnection |-> FALSE]
    /\ fw = NoFirstWrite
    /\ calls = <<>>
    /\ ServerAtRest
    /\ StoreInit
    /\ AsyncAtRest

\* the request is complete: read() prepares the response and calls service()
Dispatch ==
    /\ phase = "complete"
    /\ LET p == prepareResponse(rq, TRUE, "")
       IN  /\ rx' = p.x
           /\ closeConnection' = p.closeConnection
           /\ atInvoke' = [headers |-> p.x.headers, closeConnection |-> p.closeConnection]
    /\ phase' = "service"
    /\ UNCHANGED <<asyncVars, storeVars, debugBuild, rq, nops, fw, calls, serverVars>>

\* the request handler performs operation o on the response
HandlerStep(o) ==
    /\ phase = "service"
    /\ nops < MaxOps
    /\ nops' = nops + 1
    /\ rx' = applyOp(rx, o)
    /\ phase' = IF rx'.aborted THEN "aborted"
                ELSE IF o.op = "throw" THEN "caught" ELSE "service"
    /\ fw' = IF ~fw.called /\ callsWrite(rx, o)
             THEN firstWrite(beforeWrite(rx, o), writeData(o), o.last)
             ELSE fw
    /\ calls' = Append(calls, o)
    /\ UNCHANGED <<asyncVars, storeVars, debugBuild, rq, closeConnection, atInvoke, serverVars>>

HandlerSetHeader == \E h \in HandlerHeaders : HandlerStep(SetHeaderOp(h[1], h[2]))
HandlerSetStatus == \E t \in HandlerStatuses : HandlerStep(SetStatusOp(t[1], t[2]))
HandlerWrite == \E d \in Payloads, l \in BOOLEAN : HandlerStep(WriteOp(d, l))
HandlerWriteJSON == \E d \in JsonDocuments : HandlerStep(WriteJSONOp(d))
HandlerRedirect == \E u \in RedirectUrls : HandlerStep(RedirectOp(u))
\* lines 287-295: an exception of service() is caught and logged
HandlerThrows == HandlerStep(ThrowOp)

\* service() returns: read() finalizes the response and closes or keeps the connection
ServiceReturns ==
    /\ phase \in {"service", "caught"}
    /\ LET y == finalizeResponse(rx)
           c == mustClose(closeConnection, y.headers)
       IN  /\ rx' = IF c THEN disconnectFromHost(y) ELSE y
           /\ closeConnection' = c
           /\ fw' = IF ~fw.called /\ ~hasSentLastPart(rx)
                    THEN firstWrite(rx, "", TRUE) ELSE fw
    /\ calls' = IF ~hasSentLastPart(rx) THEN Append(calls, WriteOp("", TRUE)) ELSE calls
    /\ phase' = "finished"
    /\ UNCHANGED <<asyncVars, storeVars, debugBuild, rq, nops, atInvoke, serverVars>>

NextResponse ==
    \/ Dispatch
    \/ HandlerSetHeader
    \/ HandlerSetStatus
    \/ HandlerWrite
    \/ HandlerWriteJSON
    \/ HandlerRedirect
    \/ HandlerThrows
    \/ ServiceReturns

SpecResponse == InitResponse /\ [][NextResponse]_vars

(***************************************************************************)
(* One response on a socket whose write() begins to fail.                  *)
(***************************************************************************)
\* from now on socket->write() returns -1, the socket still being open
SocketWriteFails ==
    /\ phase = "service"
    /\ rx.sockOpen /\ ~rx.writeError
    /\ rx' = [rx EXCEPT !.writeError = TRUE]
    /\ UNCHANGED <<asyncVars, storeVars, debugBuild, rq, phase, closeConnection, nops, atInvoke, fw,
                   calls, serverVars>>

NextWriteFailure ==
    \/ Dispatch
    \/ HandlerSetHeader
    \/ HandlerSetStatus
    \/ HandlerWrite
    \/ HandlerWriteJSON
    \/ HandlerRedirect
    \/ HandlerThrows
    \/ SocketWriteFails
    \/ ServiceReturns

SpecWriteFailure == InitResponse /\ [][NextWriteFailure]_vars

(***************************************************************************)
(* HttpRequest, by its contract: readFromSocket consumes what the peer     *)
(* sent and advances the status.  What a peer sends is a sequence of       *)
(* pieces [kind, version, connection, seq]:                                *)
(*   "request"   a whole request;                                          *)
(*   "head"      a request line and some headers, the request unfinished;  *)
(*   "body"      the headers' end and a part of the body;                  *)
(*   "end"       the rest of the request;                                  *)
(*   "oversize"  data that exceeds maxRequestSize;                         *)
(*   "badhead"   as "head", with a header that the predicate of            *)
(*               StrictChain fails;                                        *)
(*   "badheader" a whole request with such a header.                       *)
(* The chain of the request is applied when the headers are complete.      *)
(* seq numbers the requests of a connection in the order of arrival.       *)
(***************************************************************************)
\* the HttpError of the headers-checking predicate that fails
HeadersError == [statusCode |-> 401, errorText |-> "Unauthorized"]

\* new HttpRequest(settings, headersHandler)
NewRequest(chain) == [NullRequest EXCEPT !.status = "waitForRequestLine", !.chain = chain]

\* the headers are complete: the chain is applied, then the status is the one given
checkHeaders(request, status) ==
    IF request.bad /\ request.chain = StrictChain
    THEN [request EXCEPT !.status = "wrongHeaders", !.error = HeadersError]
    ELSE [request EXCEPT !.status = status]

readFromSocket(request, piece) ==
    CASE piece.kind = "request" ->
            [request EXCEPT !.status = "complete", !.version = piece.version,
                            !.connection = piece.connection, !.seq = piece.seq]
      [] piece.kind \in {"head", "badhead"} ->
            [request EXCEPT !.status = "waitForHeaders", !.version = piece.version,
                            !.connection = piece.connection, !.seq = piece.seq,
                            !.bad = (piece.kind = "badhead")]
      [] piece.kind = "body" ->
            IF request.status = "waitForHeaders" THEN checkHeaders(request, "waitForBody")
            ELSE [request EXCEPT !.status = "waitForBody"]
      [] piece.kind = "end" ->
            IF request.status = "waitForHeaders" THEN checkHeaders(request, "complete")
            ELSE [request EXCEPT !.status = "complete"]
      [] piece.kind = "oversize" -> [request EXCEPT !.status = "abort", !.seq = piece.seq]
      [] piece.kind = "badheader" ->
            checkHeaders([request EXCEPT !.version = piece.version,
                                         !.connection = piece.connection,
                                         !.seq = piece.seq, !.bad = TRUE], "complete")

(***************************************************************************)
(* The request handler: service() performs one of these programs.          *)
(***************************************************************************)
Programs ==
    { <<WriteOp("hello", TRUE)>>,
      <<WriteOp("hello", FALSE), WriteOp("0123456789abcdefg", TRUE)>>,
      <<SetHeaderOp("Connection", "close"), WriteOp("hello", FALSE)>>,
      <<WriteOp("hello", FALSE), WriteJSONOp("{\"ok\":true}")>>,
      << >> }

RECURSIVE service(_, _, _)
service(x, program, i) ==
    IF i > Len(program) THEN x ELSE service(applyOp(x, program[i]), program, i + 1)

(***************************************************************************)
(* HttpConnectionHandler.  The slots read(), readTimeout(), disconnected() *)
(* and handleConnection() run on the handler's thread, one at a time; each *)
(* works on the record                                                     *)
(*   [req, buf, open, out, timer, busy, trace, k, crashed, chain]          *)
(* of the handler's currentRequest, the data its socket has to read, the   *)
(* socket's being open, the bytes written to it, readTimer, busy, the      *)
(* trace and the number of requests this call of read() has dispatched.    *)
(***************************************************************************)
\* the same without socket->close()
disconnectedLeavesOpen(st) == [st EXCEPT !.timer = TimerStopped, !.busy = FALSE]

\* the same without readTimer.stop()
disconnectedTimerRuns(st) == [st EXCEPT !.open = FALSE, !.buf = <<>>, !.busy = FALSE]

\* the slot disconnected(): lines 191-197
disconnected(st) == [st EXCEPT !.open = FALSE, !.buf = <<>>, !.timer = TimerStopped, !.busy = FALSE]

\* all pending bytes are written, then socket->disconnectFromHost(), which closes the
\* socket and emits disconnected()
drainAndDisconnect(st) == disconnected(st)

socketWrite(st, data) == IF st.open THEN [st EXCEPT !.out = @ \o data] ELSE st

RECURSIVE collectNewestFirst(_)
\* the same, taking the data that arrived last
collectNewestFirst(st) ==
    IF st.buf # <<>> /\ st.req.status \notin {"complete", "abort", "wrongHeaders"}
    THEN LET r == readFromSocket(st.req, st.buf[Len(st.buf)])
         IN  collectNewestFirst(
                 [st EXCEPT !.req = r, !.buf = SubSeq(@, 1, Len(@) - 1),
                            !.timer = IF r.status = "waitForBody" THEN TimerStarted ELSE @])
    ELSE st

RECURSIVE collect(_)
\* lines 216-230: collect data for the request object
collect(st) ==
    IF st.buf # <<>> /\ st.req.status \notin {"complete", "abort", "wrongHeaders"}
    THEN LET r == readFromSocket(st.req, Head(st.buf))
         IN  collect([st EXCEPT !.req = r, !.buf = Tail(@),
                                !.timer = IF r.status = "waitForBody" THEN TimerStarted ELSE @])
    ELSE st

RECURSIVE tagged(_, _, _, _)
\* the log of a response as trace entries <<seq, kind, n>>: seq is the request and n
\* counts the requests this call of read() has dispatched
tagged(log, seq, n, i) ==
    IF i > Len(log) THEN <<>>
    ELSE <<(<<seq, log[i][1], n>>)>> \o tagged(log, seq, n, i + 1)

\* lines 260-344: the request is complete
dispatch(st, program) ==
    LET p == prepareResponse(st.req, st.open, st.out)
        x1 == service(p.x, program, 1)
        x2 == finalizeResponse(x1)
        c == mustClose(p.closeConnection, x2.headers)
        st1 == [st EXCEPT !.timer = TimerStopped,
                          !.out = x2.out,
                          !.trace = @ \o <<(<<st.req.seq, "service", st.k + 1>>)>>
                                      \o tagged(x2.log, st.req.seq, st.k + 1, 1)
                                      \o (IF x2.sentLastPart
                                          THEN <<(<<st.req.seq, "end", st.k + 1>>)>>
                                          ELSE <<>>),
                          !.crashed = x2.aborted,
                          !.k = @ + 1]
        st2 == IF x2.aborted THEN st1
               ELSE IF c
               THEN drainAndDisconnect(
                        [st1 EXCEPT !.trace = Append(@, <<st.req.seq, "close", st.k + 1>>)])
               ELSE [st1 EXCEPT !.timer = TimerStarted]
    IN  [st2 EXCEPT !.req = NullRequest]

\* lines 235-238: "HTTP/1.1 %1\r\nConnection: close\r\n\r\n%2\r\n" with the status code
\* and the error text (a text without NUL bytes) of the request's HttpError
wrongHeadersResponse(error) ==
    "HTTP/1.1 " \o number(error.statusCode, 10) \o "\r\nConnection: close\r\n\r\n"
        \o error.errorText \o "\r\n"

\* line 252
EntityTooLarge ==
    "HTTP/1.1 413 entity too large\r\nConnection: close\r\n\r\n413 Entity too large\r\n"

\* the same without disconnecting
rejectRequestKeepOpen(st, kind, response) ==
    [socketWrite([st EXCEPT !.trace = Append(@, <<st.req.seq, kind, st.k + 1>>)], response)
        EXCEPT !.req = NullRequest]

\* lines 240-246 and 252-257: write the error response, disconnect, delete the request
rejectRequest(st, kind, response) ==
    [drainAndDisconnect(
         socketWrite([st EXCEPT !.trace = Append(@, <<st.req.seq, kind, st.k + 1>>)],
                     response))
        EXCEPT !.req = NullRequest]

\* the same, returning to the event loop after one request
readOneRequest(st, programs) ==
    IF st.buf = <<>> \/ ~st.open \/ st.crashed THEN st
    ELSE LET st1 == collect(IF st.req.status = "null"
                            THEN [st EXCEPT !.req = NewRequest(st.chain)] ELSE st)
         IN  CASE st1.req.status = "wrongHeaders" ->
                    rejectRequest(st1, "wrongHeaders", wrongHeadersResponse(st1.req.error))
               [] st1.req.status = "abort" ->
                    rejectRequest(st1, "abort", EntityTooLarge)
               [] st1.req.status = "complete" -> dispatch(st1, programs[st1.k + 1])
               [] OTHER -> st1

RECURSIVE read(_, _)
\* lines 199-346; programs[k] is what service() does for the k-th request dispatched
read(st, programs) ==
    IF st.buf = <<>> \/ ~st.open \/ st.crashed THEN st
    ELSE LET st1 == collect(IF st.req.status = "null"
                            THEN [st EXCEPT !.req = NewRequest(st.chain)] ELSE st)
         IN  CASE st1.req.status = "wrongHeaders" ->
                    rejectRequest(st1, "wrongHeaders", wrongHeadersResponse(st1.req.error))
               [] st1.req.status = "abort" ->
                    rejectRequest(st1, "abort", EntityTooLarge)
               [] st1.req.status = "complete" ->
                    read(dispatch(st1, programs[st1.k + 1]), programs)
               [] OTHER -> read(st1, programs)

handlerState(h) ==
    [ req |-> currentRequest[h], buf |-> fds[socket[h].fd].inbuf,
      open |-> socket[h].open, out |-> socket[h].out, timer |-> readTimer[h],
      busy |-> busy[h], trace |-> trace[h], k |-> 0, crashed |-> FALSE,
      chain |-> headersHandler[h] ]

\* the handler's state after a slot has run, and the descriptor's
Becomes(h, st) ==
    /\ currentRequest' = [currentRequest EXCEPT ![h] = st.req]
    /\ socket' = [socket EXCEPT ![h].open = st.open, ![h].out = st.out]
    /\ readTimer' = [readTimer EXCEPT ![h] = st.timer]
    /\ busy' = [busy EXCEPT ![h] = st.busy]
    /\ trace' = [trace EXCEPT ![h] = st.trace]
    /\ crashed' = st.crashed
    /\ fds' = [fds EXCEPT ![socket[h].fd].inbuf = st.buf,
                          ![socket[h].fd].state = IF st.open THEN @ ELSE "closed"]

\* the socket has data to read: the slot read() runs; service() performs one of programSet
Read(h, programSet) ==
    /\ ~crashed
    /\ socket[h].open
    /\ fds[socket[h].fd].inbuf # <<>>
    /\ \E programs \in [1..Len(fds[socket[h].fd].inbuf) -> programSet] :
          Becomes(h, read(handlerState(h), programs))
    /\ UNCHANGED <<asyncVars, storeVars, debugBuild, respVars, settings, headersHandler, pool, queued, lentTo>>

\* the request a trace entry made now belongs to: the one in progress, or the one
\* that has not begun to arrive
seqNow(st) ==
    IF st.req.status # "null" THEN st.req.seq
    ELSE IF st.trace # <<>> THEN st.trace[Len(st.trace)][1] + 1
    ELSE 1

\* the same with the response of line 182, which is commented out
readTimeoutWith408(st) ==
    [drainAndDisconnect(
         socketWrite([st EXCEPT !.trace = Append(@, <<seqNow(st), "timeout", 0>>)],
             "HTTP/1.1 408 request timeout\r\nConnection: close\r\n\r\n408 request timeout\r\n"))
        EXCEPT !.req = NullRequest]

\* lines 178-189
readTimeout(st) ==
    [drainAndDisconnect([st EXCEPT !.trace = Append(@, <<seqNow(st), "timeout", 0>>)])
        EXCEPT !.req = NullRequest]

\* readTimer fires: the slot readTimeout() runs
ReadTimeout(h) ==
    /\ ~crashed
    /\ readTimer[h] # TimerStopped
    /\ Becomes(h, readTimeout(handlerState(h)))
    /\ UNCHANGED <<asyncVars, storeVars, debugBuild, respVars, settings, headersHandler, pool, queued, lentTo>>

\* the peer has closed the connection: the slot disconnected() runs
Disconnected(h) ==
    /\ ~crashed
    /\ socket[h].open
    /\ Becomes(h, disconnected(handlerState(h)))
    /\ UNCHANGED <<asyncVars, storeVars, debugBuild, respVars, settings, headersHandler, pool, queued, lentTo>>

\* time passes on a connection whose readTimer is active
TimePasses(h) ==
    /\ ~crashed
    /\ readTimer[h] = TimerStarted
    /\ readTimer' = [readTimer EXCEPT ![h] = TimerRunning]
    /\ UNCHANGED <<asyncVars, storeVars, debugBuild, respVars, settings, headersHandler, pool, busy, socket,
                   currentRequest, queued, fds, lentTo, trace, crashed>>

\* lines 125-158; attached is the result of socket->setSocketDescriptor()
handleConnection(h, d, attached) ==
    /\ busy' = [busy EXCEPT ![h] = TRUE]
    /\ IF Q_ASSERT_fails(socket[h].open = FALSE)
       THEN /\ crashed' = TRUE
            /\ UNCHANGED <<socket, readTimer, currentRequest, fds, trace>>
       ELSE IF ~attached
       THEN /\ socket' = [socket EXCEPT ![h] = ClosedSocket]
            /\ fds' = [fds EXCEPT ![d].state = "failed"]
            /\ UNCHANGED <<readTimer, currentRequest, trace, crashed>>
       ELSE /\ socket' = [socket EXCEPT ![h] = [open |-> TRUE, fd |-> d, out |-> ""]]
            /\ fds' = [fds EXCEPT ![d].state = "open"]
            /\ readTimer' = [readTimer EXCEPT ![h] = TimerStarted]
            /\ currentRequest' = [currentRequest EXCEPT ![h] = NullRequest]
            /\ trace' = [trace EXCEPT ![h] = <<>>]
            /\ UNCHANGED crashed

\* the queued call of handleConnection runs on the handler's thread
HandleConnection(h) ==
    /\ ~crashed
    /\ queued[h] # <<>>
    /\ \E attached \in BOOLEAN : handleConnection(h, Head(queued[h]), attached)
    /\ queued' = [queued EXCEPT ![h] = Tail(@)]
    /\ UNCHANGED <<asyncVars, storeVars, debugBuild, respVars, settings, headersHandler, pool, lentTo>>

(***************************************************************************)
(* HttpConnectionHandlerPool (section 4.6 of the specification).           *)
(***************************************************************************)
InPool(h) == \E i \in 1..Len(pool) : pool[i] = h

FreeInPool == {i \in 1..Len(pool) : ~busy[pool[i]]}

Min(S) == CHOOSE m \in S : \A n \in S : m <= n

\* the same, creating a handler when the pool is at the cap
getConnectionHandlerAtCap ==
    IF FreeInPool # {} THEN pool[Min(FreeInPool)]
    ELSE IF Len(pool) <= settings.maxThreads
    THEN Min({h \in Handlers : ~InPool(h)})
    ELSE NoHandler

\* acquire(): the first handler that is not busy, else a new one below the cap, else none
getConnectionHandler ==
    IF FreeInPool # {} THEN pool[Min(FreeInPool)]
    ELSE IF Len(pool) < settings.maxThreads
    THEN Min({h \in Handlers : ~InPool(h)})
    ELSE NoHandler

\* the periodic cleanup destroys an idle handler in excess of minThreads
Cleanup(h) ==
    /\ ~crashed
    /\ InPool(h)
    /\ ~busy[h]
    /\ Cardinality(FreeInPool) > settings.minThreads
    /\ pool' = SelectSeq(pool, LAMBDA g : g # h)
    /\ socket' = [socket EXCEPT ![h] = ClosedSocket]
    /\ currentRequest' = [currentRequest EXCEPT ![h] = NullRequest]
    /\ trace' = [trace EXCEPT ![h] = <<>>]
    /\ lentTo' = [lentTo EXCEPT ![h] = NoDescriptor]
    /\ UNCHANGED <<asyncVars, storeVars, debugBuild, respVars, settings, headersHandler, busy, readTimer, queued, fds, crashed>>

(***************************************************************************)
(* HttpListener::incomingConnection, lines 71-109.                         *)
(***************************************************************************)
TooManyConnections ==
    "HTTP/1.1 503 too many connections\r\nConnection: close\r\n\r\nToo many connections\r\n"

\* pool->getConnectionHandler() has added the handler it returns to the pool and
\* marked it busy by the time the call of handleConnection is queued
\* attached is the result of socket->setSocketDescriptor() at line 104, which is not
\* looked at: on an unconnected socket write() fails, disconnectFromHost() does
\* nothing and disconnected() is never emitted, so the descriptor stays open
incomingConnection(d, freeHandler, attached) ==
    IF freeHandler # NoHandler
    THEN /\ pool' = IF InPool(freeHandler) THEN pool ELSE Append(pool, freeHandler)
         /\ headersHandler' = [headersHandler EXCEPT ![freeHandler] = headersHandler[Listener]]
         /\ busy' = [busy EXCEPT ![freeHandler] = TRUE]
         /\ queued' = [queued EXCEPT ![freeHandler] = Append(@, d)]
         /\ lentTo' = [lentTo EXCEPT ![freeHandler] = d]
         /\ fds' = [fds EXCEPT ![d].state = "accepted"]
    ELSE /\ fds' = IF attached
                   THEN [fds EXCEPT ![d].state = "rejected", ![d].out = TooManyConnections]
                   ELSE [fds EXCEPT ![d].state = "unattached"]
         /\ UNCHANGED <<headersHandler, pool, busy, queued, lentTo>>

\* a peer connects: the listener accepts the next descriptor
IncomingConnection(d) ==
    /\ ~crashed
    /\ fds[d].state = "unused"
    /\ \A e \in Descriptors : e < d => fds[e].state # "unused"
    /\ \E attached \in BOOLEAN : incomingConnection(d, getConnectionHandler, attached)
    /\ UNCHANGED <<asyncVars, storeVars, debugBuild, respVars, settings, socket, readTimer, currentRequest,
                   trace, crashed>>

\* httplistener.cpp lines 65-69 and 83: the application installs a chain; the signal
\* newHeadersHandler reaches the handlers it was connected to when they were lent.
\* httpconnectionhandler.cpp lines 171-176 and 213: each of them stores the chain and
\* emits its own newHeadersHandler, connected to the setHeadersHandler slot of the
\* request it is reading, which takes the chain
SetHeadersHandler(chain) ==
    /\ ~crashed
    /\ chain # headersHandler[Listener]
    /\ headersHandler' = [o \in {Listener} \cup Handlers |->
                             IF o = Listener \/ lentTo[o] # NoDescriptor
                             THEN chain ELSE headersHandler[o]]
    /\ currentRequest' = [h \in Handlers |->
                             IF lentTo[h] # NoDescriptor /\ currentRequest[h].status # "null"
                             THEN [currentRequest[h] EXCEPT !.chain = chain]
                             ELSE currentRequest[h]]
    /\ UNCHANGED <<asyncVars, storeVars, debugBuild, respVars, settings, pool, busy, socket, readTimer,
                   queued, fds, lentTo, trace, crashed>>

(***************************************************************************)
(* The peers.                                                              *)
(***************************************************************************)
PeerRequests ==
    { [version |-> "HTTP/1.1", connection |-> ""],
      [version |-> "HTTP/1.0", connection |-> ""] }

\* what a peer may send after a piece of kind last ("" at the start of a request)
PiecesAfter(last) ==
    IF last = "head" THEN {"body", "end", "oversize"}
    ELSE IF last = "body" THEN {"end", "oversize"}
    ELSE {"request", "head", "badhead", "oversize", "badheader"}

AllKinds == {"request", "head", "badhead", "body", "end", "oversize", "badheader"}

\* the peer of descriptor d sends a piece of data of one of the kinds, at most limit times
PeerSends(d, kinds, limit) ==
    /\ ~crashed
    /\ fds[d].state \in {"accepted", "open"}
    /\ fds[d].sends < limit
    /\ \E kind \in PiecesAfter(fds[d].last) \cap kinds, r \in PeerRequests :
          /\ kind \notin {"request", "head", "badhead"} => r.version = "HTTP/1.1"
          /\ fds' = [fds EXCEPT
                ![d].inbuf = Append(@, [kind |-> kind, version |-> r.version,
                                        connection |-> r.connection,
                                        seq |-> fds[d].sends + 1]),
                ![d].sends = @ + 1,
                ![d].last = IF kind \in {"head", "badhead"} THEN "head"
                            ELSE IF kind = "body" THEN kind ELSE ""]
    /\ UNCHANGED <<asyncVars, storeVars, debugBuild, respVars, settings, headersHandler, pool, busy, socket, readTimer,
                   currentRequest, queued, lentTo, trace, crashed>>

\* the peer of a descriptor that no socket was attached to goes away
PeerGivesUp(d) ==
    /\ ~crashed
    /\ fds[d].state = "failed"
    /\ fds' = [fds EXCEPT ![d].state = "closed"]
    /\ UNCHANGED <<asyncVars, storeVars, debugBuild, respVars, settings, headersHandler, pool, busy, socket, readTimer,
                   currentRequest, queued, lentTo, trace, crashed>>

ResponseAtRest ==
    /\ rq = [version |-> "HTTP/1.1", connection |-> ""]
    /\ rx = HttpResponse(FALSE, "")
    /\ phase = "none"
    /\ closeConnection = FALSE
    /\ nops = 0
    /\ atInvoke = [headers |-> EmptyHeaders, closeConnection |-> FALSE]
    /\ fw = NoFirstWrite
    /\ calls = <<>>

(***************************************************************************)
(* Spec: the listener, the pool and its handlers; the peers open           *)
(* MaxSockets connections and each sends one whole request.                *)
(***************************************************************************)
PoolPrograms == { <<WriteOp("hello", TRUE)>> }

Init ==
    /\ debugBuild \in BOOLEAN
    /\ ResponseAtRest
    /\ ServerInit
    /\ StoreInit
    /\ AsyncAtRest
    /\ fds = [d \in Descriptors |-> UnusedDescriptor]

Next ==
    \/ \E d \in Descriptors : IncomingConnection(d)
    \/ \E d \in Descriptors : PeerSends(d, {"request"}, 1)
    \/ \E d \in Descriptors : PeerGivesUp(d)
    \/ \E h \in Handlers : HandleConnection(h)
    \/ \E h \in Handlers : Read(h, PoolPrograms)
    \/ \E h \in Handlers : ReadTimeout(h)
    \/ \E h \in Handlers : Disconnected(h)
    \/ \E h \in Handlers : Cleanup(h)

Spec == Init /\ [][Next]_vars

(***************************************************************************)
(* SpecConnection: one connection on one handler; the peer sends data of   *)
(* every kind and the request handler performs every program.              *)
(***************************************************************************)
InitConnection ==
    /\ debugBuild \in BOOLEAN
    /\ ResponseAtRest
    /\ ServerInit
    /\ StoreInit
    /\ AsyncAtRest
    /\ fds = [d \in Descriptors |->
                IF d = 1 THEN UnusedDescriptor
                ELSE [UnusedDescriptor EXCEPT !.state = "never"]]

NextConnection ==
    \/ IncomingConnection(1)
    \/ \E chain \in Chains : SetHeadersHandler(chain)
    \/ PeerSends(1, AllKinds, MaxSends)
    \/ PeerGivesUp(1)
    \/ \E h \in Handlers : HandleConnection(h)
    \/ \E h \in Handlers : Read(h, Programs)
    \/ \E h \in Handlers : ReadTimeout(h)
    \/ \E h \in Handlers : Disconnected(h)

SpecConnection == InitConnection /\ [][NextConnection]_vars

(***************************************************************************)
(* One connection, with the passing of time on its readTimer.              *)
(***************************************************************************)
NextDeadline ==
    \/ IncomingConnection(1)
    \/ \E chain \in Chains : SetHeadersHandler(chain)
    \/ PeerSends(1, AllKinds, MaxSends)
    \/ PeerGivesUp(1)
    \/ \E h \in Handlers : HandleConnection(h)
    \/ \E h \in Handlers : Read(h, Programs)
    \/ \E h \in Handlers : ReadTimeout(h)
    \/ \E h \in Handlers : TimePasses(h)
    \/ \E h \in Handlers : Disconnected(h)

SpecDeadline == InitConnection /\ [][NextDeadline]_vars

(***************************************************************************)
(* One connection, with the loop that precedes disconnectFromHost():       *)
(*   while(socket->bytesToWrite()) socket->waitForBytesWritten();          *)
(* (lines 185, 241, 253, 333).  The descriptor is "draining" while bytes   *)
(* the handler wrote wait for the peer to take them, and "drained" when    *)
(* none is left; the thread of the handler stays in the loop until then.   *)
(***************************************************************************)
\* the slot is at the loop; st is the state the slot ends in when the loop is left
EntersDrain(h, st) ==
    /\ currentRequest' = [currentRequest EXCEPT ![h] = st.req]
    /\ socket' = [socket EXCEPT ![h].out = st.out]
    /\ readTimer' = [readTimer EXCEPT ![h] = st.timer]
    /\ trace' = [trace EXCEPT ![h] = st.trace]
    /\ \E pendingBytes \in (IF st.out = "" THEN {FALSE} ELSE BOOLEAN) :
          fds' = [fds EXCEPT ![socket[h].fd].inbuf = st.buf,
                             ![socket[h].fd].state =
                                 IF pendingBytes THEN "draining" ELSE "drained"]
    /\ UNCHANGED <<busy, crashed>>

\* a slot that ends in st: by way of the loop when it disconnects
SlotEnds(h, st) ==
    IF socket[h].open /\ ~st.open /\ ~st.crashed THEN EntersDrain(h, st) ELSE Becomes(h, st)

ReadDrains(h, programSet) ==
    /\ ~crashed
    /\ socket[h].open
    /\ fds[socket[h].fd].state = "open"
    /\ fds[socket[h].fd].inbuf # <<>>
    /\ \E programs \in [1..Len(fds[socket[h].fd].inbuf) -> programSet] :
          SlotEnds(h, read(handlerState(h), programs))
    /\ UNCHANGED <<asyncVars, storeVars, debugBuild, respVars, settings, headersHandler, pool, queued, lentTo>>

ReadTimeoutDrains(h) ==
    /\ ~crashed
    /\ readTimer[h] # TimerStopped
    /\ socket[h].open
    /\ fds[socket[h].fd].state = "open"
    /\ SlotEnds(h, readTimeout(handlerState(h)))
    /\ UNCHANGED <<asyncVars, storeVars, debugBuild, respVars, settings, headersHandler, pool, queued, lentTo>>

\* the peer takes the bytes that wait for it
PeerTakes(d) ==
    /\ ~crashed
    /\ fds[d].state = "draining"
    /\ fds' = [fds EXCEPT ![d].state = "drained"]
    /\ UNCHANGED <<asyncVars, storeVars, debugBuild, respVars, settings, headersHandler, pool, busy, socket,
                   readTimer, currentRequest, queued, lentTo, trace, crashed>>

\* bytesToWrite() is 0: the loop is left, disconnectFromHost() closes the socket and
\* the slot disconnected() runs
LeavesDrain(h) ==
    /\ ~crashed
    /\ socket[h].open
    /\ fds[socket[h].fd].state = "drained"
    /\ Becomes(h, disconnected(handlerState(h)))
    /\ UNCHANGED <<asyncVars, storeVars, debugBuild, respVars, settings, headersHandler, pool, queued, lentTo>>

\* the connection is lost while the handler is in the loop, or idle: the socket is
\* closed and the slot disconnected() runs
ConnectionLost(h) ==
    /\ socket[h].open
    /\ fds[socket[h].fd].state \in {"open", "draining"}
    /\ Disconnected(h)

NextDrain ==
    \/ IncomingConnection(1)
    \/ PeerSends(1, AllKinds, MaxSends)
    \/ PeerGivesUp(1)
    \/ PeerTakes(1)
    \/ \E h \in Handlers : HandleConnection(h)
    \/ \E h \in Handlers : ReadDrains(h, Programs)
    \/ \E h \in Handlers : ReadTimeoutDrains(h)
    \/ \E h \in Handlers : LeavesDrain(h)
    \/ \E h \in Handlers : ConnectionLost(h)

\* the thread of a handler goes on when it can
SpecDrain ==
    InitConnection /\ [][NextDrain]_vars /\ WF_vars(\E h \in Handlers : LeavesDrain(h))

(***************************************************************************)
(* One request in the hands of the request handler while the peer hangs    *)
(* up.  read() calls service() on the handler's thread (line 289), and the *)
(* slots of the handler run on that thread one after the other: the slot   *)
(* disconnected() runs when read() has returned.                           *)
(***************************************************************************)
\* the thread of the handler is inside the slot read()
InRead == phase \in {"complete", "service", "caught"}

\* the peer of descriptor d closes the connection
PeerHangsUp(d) ==
    /\ ~crashed
    /\ fds[d].state = "open"
    /\ fds' = [fds EXCEPT ![d].state = "hangup"]
    /\ UNCHANGED <<asyncVars, storeVars, debugBuild, respVars, settings, headersHandler, pool, busy, socket,
                   readTimer, currentRequest, queued, lentTo, trace, crashed>>

\* the socket has emitted disconnected(): the slot runs when the thread is free
DisconnectedQueued(h) ==
    /\ ~crashed
    /\ socket[h].open
    /\ fds[socket[h].fd].state = "hangup" \/ ~rx.sockOpen
    /\ ~InRead
    /\ phase # "aborted"
    /\ Becomes(h, disconnected(handlerState(h)))
    /\ UNCHANGED <<asyncVars, storeVars, debugBuild, respVars, settings, headersHandler, pool, queued, lentTo>>

InitInFlight ==
    /\ debugBuild \in BOOLEAN
    /\ rq \in Requests
    /\ rx = HttpResponse(TRUE, "")
    /\ phase = "complete"
    /\ closeConnection = FALSE
    /\ nops = 0
    /\ atInvoke = [headers |-> EmptyHeaders, closeConnection |-> FALSE]
    /\ fw = NoFirstWrite
    /\ calls = <<>>
    /\ settings = [maxThreads |-> MaxThreads, minThreads |-> MinThreads]
    /\ headersHandler = [o \in {Listener} \cup Handlers |-> NoChain]
    /\ pool = [i \in 1..MinThreads |-> i]
    /\ busy = [h \in Handlers |-> h = 1]
    /\ socket = [h \in Handlers |->
                   IF h = 1 THEN [open |-> TRUE, fd |-> 1, out |-> ""] ELSE ClosedSocket]
    /\ readTimer = [h \in Handlers |-> TimerStopped]
    /\ currentRequest = [h \in Handlers |-> NullRequest]
    /\ queued = [h \in Handlers |-> <<>>]
    /\ lentTo = [h \in Handlers |-> IF h = 1 THEN 1 ELSE NoDescriptor]
    /\ trace = [h \in Handlers |-> <<>>]
    /\ crashed = FALSE
    /\ fds = [d \in Descriptors |->
                IF d = 1 THEN [UnusedDescriptor EXCEPT !.state = "open"]
                ELSE [UnusedDescriptor EXCEPT !.state = "never"]]
    /\ StoreInit
    /\ AsyncAtRest

NextInFlight ==
    \/ Dispatch
    \/ HandlerSetHeader
    \/ HandlerSetStatus
    \/ HandlerWrite
    \/ HandlerWriteJSON
    \/ HandlerRedirect
    \/ HandlerThrows
    \/ ServiceReturns
    \/ PeerHangsUp(1)
    \/ DisconnectedQueued(1)

SpecInFlight == InitInFlight /\ [][NextInFlight]_vars

(***************************************************************************)
(* One request on a connection whose readTimer is active: read() stops the *)
(* timer before it calls service() and starts it again when the response   *)
(* is finalized and the connection stays open.  Time passes while the      *)
(* request handler runs; the slot readTimeout() runs on the handler's      *)
(* thread, when read() has returned.                                       *)
(***************************************************************************)
\* the same without readTimer.stop()
timerKeepsRunning(timer) == timer

\* line 263: readTimer.stop()
stopTimer(timer) == TimerStopped

\* lines 260-289: the request is complete; read() stops the timer, prepares the
\* response and calls service()
ReadDispatches(h) ==
    /\ ~crashed
    /\ socket[h].open
    /\ phase = "none"
    /\ LET p == prepareResponse(rq, TRUE, "")
       IN  /\ rx' = p.x
           /\ closeConnection' = p.closeConnection
           /\ atInvoke' = [headers |-> p.x.headers, closeConnection |-> p.closeConnection]
    /\ phase' = "service"
    /\ readTimer' = [readTimer EXCEPT ![h] = stopTimer(@)]
    /\ UNCHANGED <<asyncVars, storeVars, debugBuild, rq, nops, fw, calls, settings, headersHandler, pool,
                   busy, socket, currentRequest, queued, fds, lentTo, trace, crashed>>

\* lines 297-344: service() has returned; read() finalizes the response, then closes
\* the connection or starts the timer for the next request
ReadFinishes(h) ==
    /\ ~crashed
    /\ socket[h].open
    /\ phase \in {"service", "caught"}
    /\ LET y == finalizeResponse(rx)
           c == mustClose(closeConnection, y.headers)
       IN  /\ rx' = IF c THEN disconnectFromHost(y) ELSE y
           /\ closeConnection' = c
           /\ fw' = IF ~fw.called /\ ~hasSentLastPart(rx)
                    THEN firstWrite(rx, "", TRUE) ELSE fw
           /\ Becomes(h, IF c
                         THEN drainAndDisconnect(
                                  [handlerState(h) EXCEPT !.trace = Append(@, <<1, "close", 1>>)])
                         ELSE [handlerState(h) EXCEPT !.timer = TimerStarted])
    /\ calls' = IF ~hasSentLastPart(rx) THEN Append(calls, WriteOp("", TRUE)) ELSE calls
    /\ phase' = "finished"
    /\ UNCHANGED <<asyncVars, storeVars, debugBuild, rq, nops, atInvoke, settings, headersHandler, pool,
                   queued, lentTo>>

\* readTimer has fired: the slot readTimeout() runs when the thread is free
ReadTimeoutQueued(h) ==
    /\ ~InRead
    /\ phase # "aborted"
    /\ ReadTimeout(h)

\* handleConnection has started readTimer (line 154) and a request arrives
InitInvocation ==
    /\ debugBuild \in BOOLEAN
    /\ rq \in Requests
    /\ rx = HttpResponse(TRUE, "")
    /\ phase = "none"
    /\ closeConnection = FALSE
    /\ nops = 0
    /\ atInvoke = [headers |-> EmptyHeaders, closeConnection |-> FALSE]
    /\ fw = NoFirstWrite
    /\ calls = <<>>
    /\ settings = [maxThreads |-> MaxThreads, minThreads |-> MinThreads]
    /\ headersHandler = [o \in {Listener} \cup Handlers |-> NoChain]
    /\ pool = [i \in 1..MinThreads |-> i]
    /\ busy = [h \in Handlers |-> h = 1]
    /\ socket = [h \in Handlers |->
                   IF h = 1 THEN [open |-> TRUE, fd |-> 1, out |-> ""] ELSE ClosedSocket]
    /\ readTimer = [h \in Handlers |-> IF h = 1 THEN TimerStarted ELSE TimerStopped]
    /\ currentRequest = [h \in Handlers |-> NullRequest]
    /\ queued = [h \in Handlers |-> <<>>]
    /\ lentTo = [h \in Handlers |-> IF h = 1 THEN 1 ELSE NoDescriptor]
    /\ trace = [h \in Handlers |-> <<>>]
    /\ crashed = FALSE
    /\ fds = [d \in Descriptors |->
                IF d = 1 THEN [UnusedDescriptor EXCEPT !.state = "open"]
                ELSE [UnusedDescriptor EXCEPT !.state = "never"]]
    /\ StoreInit
    /\ AsyncAtRest

NextInvocation ==
    \/ ReadDispatches(1)
    \/ HandlerSetHeader
    \/ HandlerWrite
    \/ HandlerThrows
    \/ ReadFinishes(1)
    \/ TimePasses(1)
    \/ ReadTimeoutQueued(1)

SpecInvocation == InitInvocation /\ [][NextInvocation]_vars

(***************************************************************************)
(* The session store on its own: no connection is open.                    *)
(***************************************************************************)
InitSession ==
    /\ debugBuild = FALSE
    /\ ResponseAtRest
    /\ ServerAtRest
    /\ StoreInit
    /\ AsyncAtRest

SpecSession == InitSession /\ [][NextSession]_vars

(***************************************************************************)
(* Requests handled asynchronously.  HttpRequestHandler::callService runs  *)
(* service(params) on a detached thread; params carries the request ID,    *)
(* the response and the callback that registers a cancellation token, and  *)
(* the handler answers with the signal responseResultSignal, delivered on  *)
(* the connection handler's thread.  The connection handler's side of      *)
(* this (the call of callService, the slot for the completion,             *)
(* socketSafeExecution) is declared in httpconnectionhandler.h and is      *)
(* modelled from sections 4.4, 4.5 and 5 of the specification; its slots   *)
(* handleConnection, read (up to the complete request), readTimeout and    *)
(* disconnected are those of httpconnectionhandler.cpp.                    *)
(* A thread is [h, id, kind, pc, x, close]: the handler that called, the   *)
(* request ID, the request handler that runs, its position, the response   *)
(* and the initial close decision.                                         *)
(***************************************************************************)
\* the request handlers: HttpRequestHandler::service, StaticFileController::service
\* (for a file that does not exist) and an application's handler that registers a
\* cancellation token and emits responseResultSignal
HandlerKinds == {"default", "static", "app"}

RECURSIVE collectRequest(_)
\* lines 199-258: read() until a request is complete, rejected or the data ends
collectRequest(st) ==
    IF st.buf = <<>> \/ ~st.open THEN st
    ELSE LET st1 == collect(IF st.req.status = "null"
                            THEN [st EXCEPT !.req = NewRequest(st.chain)] ELSE st)
         IN  CASE st1.req.status = "wrongHeaders" ->
                    rejectRequest(st1, "wrongHeaders", wrongHeadersResponse(st1.req.error))
               [] st1.req.status = "abort" ->
                    rejectRequest(st1, "abort", EntityTooLarge)
               [] st1.req.status = "complete" -> st1
               [] OTHER -> collectRequest(st1)

\* httprequesthandler.cpp line 34: the loop runs for cntThread = 1 .. 999999
ThreadsToCrash == 999999

\* the turns of the loop at which the constructor of std::thread is let to throw
ThrowsAt == {1, 2, ThreadsToCrash}

\* httprequesthandler.cpp lines 32-46: what a call that finds the counter at c does
\* before it starts the thread of service(): the counter it leaves, the number of
\* threads it has started that only sleep, and whether it throws
callServicePrologue(c) ==
    IF c - 1 < 0
    THEN {[cntSkip |-> CntSkipStart, sleeping |-> k - 1, throws |-> TRUE] : k \in ThrowsAt}
         \cup {[cntSkip |-> c - 1, sleeping |-> ThreadsToCrash, throws |-> FALSE]}
    ELSE {[cntSkip |-> c - 1, sleeping |-> 0, throws |-> FALSE]}

\* httprequesthandler.cpp lines 48-60: the thread that runs service(params)
callService(h, id, kind, x, close) ==
    [h |-> h, id |-> id, kind |-> kind, pc |-> "running", x |-> x, close |-> close]

\* the request is complete: the response is prepared (lines 260-284), the request gets
\* the next ID and is given to callService; no more is read until it is answered
ReadAsync(h) ==
    /\ ~crashed
    /\ socket[h].open
    /\ fds[socket[h].fd].inbuf # <<>>
    /\ currentRequest[h].status # "complete"
    /\ Len(threads) < MaxDispatch
    /\ LET st == collectRequest(handlerState(h))
       IN  IF st.req.status = "complete"
           THEN LET p == prepareResponse(st.req, st.open, st.out)
                IN  /\ Becomes(h, [st EXCEPT !.timer = TimerStopped])
                    /\ currentRequestID' = [currentRequestID EXCEPT ![h] = @ + 1]
                    /\ \E o \in callServicePrologue(cntSkip) :
                          ~o.throws /\ cntSkip' = o.cntSkip
                    /\ \E kind \in HandlerKinds :
                          threads' = Append(threads,
                              callService(h, currentRequestID[h] + 1, kind,
                                          p.x, p.closeConnection))
           ELSE /\ Becomes(h, st)
                /\ UNCHANGED <<currentRequestID, threads, cntSkip>>
    /\ UNCHANGED <<storeVars, debugBuild, respVars, settings, headersHandler, pool, queued,
                   lentTo, m_canceller, eventQueue, alog>>

\* thread n's response, writing to the socket its connection handler has now
onSocket(n) ==
    [threads[n].x EXCEPT !.sockOpen = socket[threads[n].h].open,
                         !.out = socket[threads[n].h].out]

\* the response of thread n is now y, after a call made by who
Written(n, y, who, pc) ==
    /\ threads' = [threads EXCEPT ![n].x = y, ![n].pc = pc]
    /\ socket' = [socket EXCEPT ![threads[n].h].out = y.out]
    /\ alog' = IF y.out # socket[threads[n].h].out
               THEN Append(alog, [by |-> who, what |-> "write", n |-> n])
               ELSE alog
    /\ crashed' = y.aborted

\* httprequesthandler.cpp lines 19-28, on the thread of callService
ServiceDefault(n) ==
    /\ ~crashed
    /\ threads[n].kind = "default" /\ threads[n].pc = "running"
    /\ Written(n, write(setStatus(onSocket(n), 501, "not implemented"),
                        "501 not implemented", TRUE), "service", "returned")
    /\ UNCHANGED <<storeVars, debugBuild, respVars, settings, headersHandler, pool, busy,
                   readTimer, currentRequest, queued, fds, lentTo, trace,
                   currentRequestID, cntSkip, m_canceller, eventQueue>>

\* the function of thread n, waiting for the thread of its connection handler
QueuedFunction(n) == [type |-> "queueFunction", n |-> n]

\* the same with one place for the function that waits: a call replaces it
socketSafeExecutionOnePlace(h, n) ==
    SelectSeq(eventQueue[h], LAMBDA e : e.type # "queueFunction") \o <<QueuedFunction(n)>>

\* the events of connection handler h after thread n has called socketSafeExecution:
\* the function is put at the end, and the caller waits until it has run
socketSafeExecution(h, n) == Append(eventQueue[h], QueuedFunction(n))

\* staticfilecontroller.cpp lines 119-120 and 47-49: setStatus on the thread of
\* callService, then response.write inside socketSafeExecution; the thread waits
ServiceStatic(n) ==
    /\ ~crashed
    /\ threads[n].kind = "static" /\ threads[n].pc = "running"
    /\ threads' = [threads EXCEPT ![n].x = setStatus(@, 404, "not found"),
                                  ![n].pc = "blocked"]
    /\ eventQueue' = [eventQueue EXCEPT ![threads[n].h] = socketSafeExecution(threads[n].h, n)]
    /\ UNCHANGED <<storeVars, debugBuild, respVars, serverVars, currentRequestID, cntSkip,
                   m_canceller, alog>>

\* the function given to socketSafeExecution runs on the connection handler's thread
OnQueueFunction(h) ==
    /\ ~crashed
    /\ eventQueue[h] # <<>> /\ Head(eventQueue[h]).type = "queueFunction"
    /\ LET n == Head(eventQueue[h]).n
       IN  Written(n, write(onSocket(n), "404 not found", TRUE), "handler", "returned")
    /\ eventQueue' = [eventQueue EXCEPT ![h] = Tail(@)]
    /\ UNCHANGED <<storeVars, debugBuild, respVars, settings, headersHandler, pool, busy,
                   readTimer, currentRequest, queued, fds, lentTo, trace,
                   currentRequestID, cntSkip, m_canceller>>

\* the application's handler calls params.cancellerInitialization(token): the token
\* is stored in m_canceller
AppRegisters(n) ==
    /\ ~crashed
    /\ threads[n].kind = "app" /\ threads[n].pc = "running"
    /\ threads' = [threads EXCEPT ![n].pc = "registered"]
    /\ m_canceller' = [m_canceller EXCEPT ![threads[n].h] = n]
    /\ UNCHANGED <<storeVars, debugBuild, respVars, serverVars, currentRequestID, cntSkip,
                   eventQueue, alog>>

\* the application's handler emits responseResultSignal with the ID it was given
AppCompletes(n) ==
    /\ ~crashed
    /\ threads[n].kind = "app" /\ threads[n].pc \in {"running", "registered"}
    /\ threads' = [threads EXCEPT ![n].pc = "returned"]
    /\ eventQueue' = [eventQueue EXCEPT ![threads[n].h] =
                         Append(@, [type |-> "responseResult", n |-> n])]
    /\ UNCHANGED <<storeVars, debugBuild, respVars, serverVars, currentRequestID, cntSkip,
                   m_canceller, alog>>

\* a completion handled whatever request ID it carries
isAny(h, result) == TRUE

\* a completion that carries the handler's current request ID
isCurrent(h, result) == threads[result.n].id = currentRequestID[h]

\* a completion is delivered on the connection handler's thread.  One that is not for
\* the request the handler waits for is dropped; otherwise the response is finalized
\* and the connection closed or kept, as lines 297-344 do
OnResponseResult(h) ==
    /\ ~crashed
    /\ eventQueue[h] # <<>> /\ Head(eventQueue[h]).type = "responseResult"
    /\ eventQueue' = [eventQueue EXCEPT ![h] = Tail(@)]
    /\ LET n == Head(eventQueue[h]).n
       IN  IF isCurrent(h, Head(eventQueue[h]))
              /\ socket[h].open /\ currentRequest[h].status = "complete"
           THEN LET y == finalizeResponse(onSocket(n))
                    c == mustClose(threads[n].close, y.headers)
                    st == [handlerState(h) EXCEPT !.out = y.out, !.req = NullRequest]
                IN  /\ Becomes(h, IF y.aborted THEN [st EXCEPT !.crashed = TRUE]
                                  ELSE IF c THEN drainAndDisconnect(st)
                                  ELSE [st EXCEPT !.timer = TimerStarted])
                    /\ threads' = [threads EXCEPT ![n].x = y]
                    /\ m_canceller' = [m_canceller EXCEPT ![h] = NoToken]
                    /\ alog' = IF y.out # socket[h].out
                               THEN Append(alog, [by |-> "handler", what |-> "write", n |-> n])
                               ELSE alog
           ELSE /\ alog' = Append(alog, [by |-> "handler", what |-> "ignored", n |-> n,
                                         current |-> currentRequestID[h]])
                /\ UNCHANGED <<busy, socket, readTimer, currentRequest, fds, trace, crashed,
                               threads, m_canceller>>
    /\ UNCHANGED <<storeVars, debugBuild, respVars, settings, headersHandler, pool, queued,
                   lentTo, currentRequestID, cntSkip>>

\* a request is given to callService of a request handler of the given kind
CallService(h, kind) ==
    /\ Len(alog) < MaxCalls
    /\ \E o \in callServicePrologue(cntSkip) :
          /\ cntSkip' = o.cntSkip
          /\ threads' = IF o.throws THEN threads
                        ELSE Append(threads, callService(h, Len(alog) + 1, kind,
                                                         HttpResponse(FALSE, ""), FALSE))
          /\ alog' = Append(alog, [by |-> "callService",
                                   what |-> IF o.throws THEN "throws" ELSE "returns",
                                   n |-> Len(alog) + 1, sleeping |-> o.sleeping])
    /\ UNCHANGED <<storeVars, debugBuild, respVars, serverVars, currentRequestID, m_canceller,
                   eventQueue>>

\* callService on its own: no connection is open
InitCallService ==
    /\ debugBuild \in BOOLEAN
    /\ ResponseAtRest
    /\ ServerAtRest
    /\ StoreInit
    /\ AsyncAtRest

NextCallService == \E kind \in {"default", "app"} : CallService(1, kind)

SpecCallService == InitCallService /\ [][NextCallService]_vars

\* a server with one connection handler, lent to one connection after the other
InitAsync ==
    /\ debugBuild \in BOOLEAN
    /\ ResponseAtRest
    /\ ServerWith(1, 1)
    /\ fds = [d \in Descriptors |->
                IF d <= MaxDispatch THEN UnusedDescriptor
                ELSE [UnusedDescriptor EXCEPT !.state = "never"]]
    /\ StoreInit
    /\ AsyncInit({0, 1})

NextAsync ==
    \/ \E d \in Descriptors : IncomingConnection(d)
    \/ \E d \in Descriptors : PeerSends(d, {"request"}, 1)
    \/ \E d \in Descriptors : PeerGivesUp(d)
    \/ \E h \in Handlers : HandleConnection(h)
    \/ \E h \in Handlers : ReadAsync(h)
    \/ \E h \in Handlers : ReadTimeout(h)
    \/ \E h \in Handlers : Disconnected(h)
    \/ \E n \in 1..Len(threads) : ServiceDefault(n)
    \/ \E n \in 1..Len(threads) : ServiceStatic(n)
    \/ \E n \in 1..Len(threads) : AppRegisters(n)
    \/ \E n \in 1..Len(threads) : AppCompletes(n)
    \/ \E h \in Handlers : OnQueueFunction(h)
    \/ \E h \in Handlers : OnResponseResult(h)

SpecAsync == InitAsync /\ [][NextAsync]_vars

(***************************************************************************)
(* C1: on one connection the request handler is invoked for the requests   *)
(* in the order of their arrival, every byte of a response, its end        *)
(* included, is written before anything is done for the next request, and  *)
(* no two requests are dispatched or answered at once.                     *)
(***************************************************************************)
InArrivalOrder(t) ==
    \A i, j \in 1..Len(t) : i < j => t[i][1] <= t[j][1]

\* whatever is done for a request follows the one invocation of its handler
ServiceFirst(t) ==
    \A i \in 1..Len(t) :
        CASE t[i][2] = "service" -> \A j \in 1..(i - 1) : t[j][1] < t[i][1]
          [] t[i][2] \in {"header", "body", "end"} ->
                 \E j \in 1..(i - 1) : t[j][1] = t[i][1] /\ t[j][2] = "service"
          [] OTHER -> TRUE

\* a response is complete before the next request's turn, and silent afterwards
ResponseEndsBeforeNext(t) ==
    /\ \A i, j \in 1..Len(t) :
           (i < j /\ t[i][1] < t[j][1]) =>
               \E k \in i..(j - 1) : t[k][1] = t[i][1] /\ t[k][2] = "end"
    /\ \A i, j \in 1..Len(t) :
           (i < j /\ t[i][2] = "end" /\ t[j][2] # "close") => t[i][1] < t[j][1]

C1_PipelinedInOrder ==
    \A h \in Handlers :
        InArrivalOrder(trace[h]) /\ ServiceFirst(trace[h]) /\ ResponseEndsBeforeNext(trace[h])

\* two pipelined requests were answered by one call of read(), the first with a body
C1_Witness ==
    \E h \in Handlers :
        /\ \E i \in 1..Len(trace[h]) : trace[h][i] = <<1, "body", 1>>
        /\ \E i \in 1..Len(trace[h]) : trace[h][i] = <<2, "end", 2>>

(***************************************************************************)
(* C2: the number of busy handlers, and the number of handlers in the      *)
(* pool, never exceeds maxThreads.                                         *)
(***************************************************************************)
BusyHandlers == {h \in Handlers : busy[h]}

C2_PoolBound ==
    /\ Cardinality(BusyHandlers) <= settings.maxThreads
    /\ Len(pool) <= settings.maxThreads

\* every handler the pool may hold is busy and a further connection was rejected
C2_Witness ==
    /\ Cardinality(BusyHandlers) = settings.maxThreads
    /\ Len(pool) = settings.maxThreads
    /\ \E d \in Descriptors : fds[d].state = "rejected"

(***************************************************************************)
(* C3: a connection that was accepted and not rejected has exactly one     *)
(* busy handler while it lasts, no handler serves two live connections,    *)
(* and no handler stays busy for a connection that has closed.             *)
(***************************************************************************)
Live(d) == fds[d].state \in {"accepted", "open", "failed"}

BusyFor(d) == {h \in Handlers : busy[h] /\ lentTo[h] = d}

C3_OneHandlerPerConnection ==
    \A d \in Descriptors :
        /\ Live(d) => Cardinality(BusyFor(d)) = 1
        /\ fds[d].state = "closed" => BusyFor(d) = {}

(***************************************************************************)
(* C11: when the parser reports wrongHeaders or abort, the request handler *)
(* is not invoked for that request, the canonical error response is        *)
(* written exactly once, the connection is closed, and no later request of *)
(* the connection is parsed or dispatched.                                 *)
(***************************************************************************)
CanonicalError(kind) ==
    IF kind = "abort"
    THEN "HTTP/1.1 413 entity too large\r\nConnection: close\r\n\r\n413 Entity too large\r\n"
    ELSE "HTTP/1.1 401\r\nConnection: close\r\n\r\nUnauthorized\r\n"

Occurrences(part, whole) ==
    Cardinality({i \in 1..(Len(whole) - Len(part) + 1) :
                    SubSeq(whole, i, i + Len(part) - 1) = part})

EndsWith(whole, part) ==
    /\ Len(whole) >= Len(part)
    /\ SubSeq(whole, Len(whole) - Len(part) + 1, Len(whole)) = part

RejectedAt(h, i) == trace[h][i][2] \in {"wrongHeaders", "abort"}

Refused(d) == fds[d].state \in {"rejected", "unattached"}

Answered503AndClosed(d) ==
    /\ fds[d].state = "rejected"
    /\ fds[d].out =
          "HTTP/1.1 503 too many connections\r\nConnection: close\r\n\r\nToo many connections\r\n"

GivenTo(d) ==
    {h \in Handlers : lentTo[h] = d \/ \E i \in 1..Len(queued[h]) : queued[h][i] = d}

RefusedNow == \E d \in Descriptors : ~Refused(d) /\ Refused(d)'

C12_RejectWith503 ==
    /\ [](\A d \in Descriptors : Refused(d) => (Answered503AndClosed(d) /\ GivenTo(d) = {}))
    /\ [][RefusedNow => UNCHANGED <<pool, busy, socket, readTimer, currentRequest,
                                     queued, lentTo, trace>>]_vars

(***************************************************************************)
(* C13: when a connection ends while a request handler runs and has        *)
(* registered its cancellation token, cancel() is called on that token     *)
(* exactly once: once at that moment, and never a second time.             *)
(***************************************************************************)
Cancels(log, n) ==
    Cardinality({i \in 1..Len(log) : log[i].what = "cancel" /\ log[i].n = n})

\* the request handler of h's current request has registered a token and runs
TokenInFlight(h) ==
    /\ m_canceller[h] # NoToken
    /\ threads[m_canceller[h]].pc = "registered"
    /\ threads[m_canceller[h]].id = currentRequestID[h]

\* the peer disconnects or the connection is shut down
ConnectionEnds(h) == socket[h].open /\ ~socket'[h].open

TakesLateCompletion(h) ==
    /\ eventQueue[h] # <<>>
    /\ Head(eventQueue[h]).type = "responseResult"
    /\ threads[Head(eventQueue[h]).n].id # currentRequestID[h]
    /\ eventQueue'[h] = Tail(eventQueue[h])

C15_WritesOnHandlerThread ==
    \A i \in 1..Len(alog) : alog[i].what = "write" => alog[i].by = "handler"

(***************************************************************************)
(* C21: when the read timeout fires, nothing is written to the socket, the *)
(* request in progress is dropped without a call of the request handler,   *)
(* and the connection is closed.                                           *)
(***************************************************************************)
TimedOut(t) == \E i \in 1..Len(t) : t[i][2] = "timeout"

Invocations(t) == {i \in 1..Len(t) : t[i][2] = "service"}

C21_TimeoutClosesSilently ==
    [][\A h \in Handlers :
          (~TimedOut(trace[h]) /\ TimedOut(trace'[h])) =>
              /\ socket'[h].out = socket[h].out
              /\ Invocations(trace'[h]) = Invocations(trace[h])
              /\ currentRequest'[h] = NullRequest
              /\ ~socket'[h].open
              /\ fds'[socket[h].fd].state = "closed"
              /\ fds'[socket[h].fd].out = fds[socket[h].fd].out]_vars

\* the timeout has fired while a request was in progress
C21_Witness ==
    \E h \in Handlers :
        /\ trace[h] = <<(<<1, "timeout", 0>>)>>
        /\ fds[socket[h].fd].last = "head"
        /\ ~socket[h].open

(***************************************************************************)
(* C22: readTimer is started anew whenever the handler has consumed bytes  *)
(* of the connection, whatever the status of the parser (the request line  *)
(* and the headers included), when waitForBody is observed and when a      *)
(* response has been written and the connection is kept alive; and one     *)
(* start of the timer gives at most one timeout.                           *)
(***************************************************************************)
\* the handler has taken bytes from its socket and the connection goes on
ConsumesAndGoesOn(h) ==
    /\ socket[h].open /\ socket'[h].open /\ ~crashed'
    /\ Len(fds'[socket[h].fd].inbuf) < Len(fds[socket[h].fd].inbuf)

C22_DeadlineRearmed ==
    [][\A h \in Handlers :
          /\ ConsumesAndGoesOn(h) => readTimer'[h] = TimerStarted
          /\ (~TimedOut(trace[h]) /\ TimedOut(trace'[h])) => readTimer'[h] = TimerStopped]_vars

(***************************************************************************)
(* C23: when a write to the socket fails in the middle of a response, no   *)
(* more bytes of the response are written, the response does not count as  *)
(* finished when read() decides about keep-alive, and the connection is    *)
(* closed, not kept for the next request.                                  *)
(***************************************************************************)
C23_WriteFailureAbandons ==
    [][/\ rx.failed => (rx'.out = rx.out /\ ~rx'.sentLastPart)
       /\ (rx'.failed /\ phase' = "finished") => (closeConnection' /\ ~rx'.sockOpen)]_vars

(***************************************************************************)
(* C24: when the peer has disconnected while the request handler is at     *)
(* work, the connection handler closes the socket and clears busy without  *)
(* waiting for the request handler: it can do so although the request      *)
(* handler has not completed, and never will.                              *)
(***************************************************************************)
C24_DisconnectDoesNotWait ==
    \A h \in Handlers :
        (/\ busy[h] /\ socket[h].open
         /\ fds[socket[h].fd].state = "hangup"
         /\ phase = "service")
            => ENABLED DisconnectedQueued(h)

(***************************************************************************)
(* C25: a function given to socketSafeExecution runs exactly once, on the  *)
(* thread of the connection handler, and its caller goes on only when it   *)
(* has run; so it is when two threads have given functions to the same     *)
(* connection handler, and when the connection is closed the handler can   *)
(* still take its events and run the function, so that the caller does not *)
(* wait for ever.                                                          *)
(***************************************************************************)
\* how many times the function of thread n waits at its connection handler
Pending(n) ==
    Cardinality({i \in 1..Len(eventQueue[threads[n].h]) :
                    eventQueue[threads[n].h][i] = QueuedFunction(n)})

\* the thread of connection handler h can take the next of its events
CanTakeEvent(h) ==
    IF Head(eventQueue[h]).type = "queueFunction"
    THEN ENABLED OnQueueFunction(h)
    ELSE ENABLED OnResponseResult(h)

\* a thread waits for its function at connection handler h
Awaited(h) == \E n \in 1..Len(threads) : threads[n].h = h /\ threads[n].pc = "blocked"

Adopts(h) == busy'[h] /\ queued'[h] # queued[h]

\* the pool's cleanup deletes the handler
Destroyed(h) == InPool(h) /\ \A i \in 1..Len(pool') : pool'[i] # h

\* nothing of the connection of handler h is touched
Untouched(h) ==
    /\ socket'[h] = socket[h]
    /\ readTimer'[h] = readTimer[h]
    /\ currentRequest'[h].status = currentRequest[h].status
    /\ trace'[h] = trace[h]
    /\ busy'[h] = busy[h]

C26_ClosedIsTerminal ==
    [][/\ \A h \in Handlers :
             (lentTo[h] # NoDescriptor /\ ~socket[h].open /\ ~busy[h]) =>
                 (Untouched(h) \/ Adopts(h) \/ Destroyed(h))
       /\ \A d \in Descriptors : fds[d].state = "closed" => fds'[d] = fds[d]]_vars

\* the first connection is closed, and its handler serves the second one
C26_Witness ==
    /\ fds[1].state = "closed" /\ fds[1].sends > 0
    /\ lentTo[1] = 2 /\ socket[1].open /\ socket[1].fd = 2
    /\ trace[1] # <<>>

(***************************************************************************)
(* C27: when handleConnection begins on a connection handler, the socket   *)
(* of the handler is not open, and a handler is not lent to a new          *)
(* connection while the socket of its previous connection is open,         *)
(* whatever the order of the listener's acquisition, the queued call and   *)
(* the disconnection.                                                      *)
(***************************************************************************)
C27_SocketClosedAtHandleConnection ==
    [][\A h \in Handlers :
          /\ Len(queued'[h]) > Len(queued[h]) => (~socket[h].open /\ ~busy[h])
          /\ Len(queued'[h]) < Len(queued[h]) => (~socket[h].open /\ ~crashed')]_vars

\* the handler of the first connection, which is over, has begun the second one
C27_Witness ==
    /\ fds[1].state = "closed" /\ fds[1].sends > 0
    /\ fds[2].state = "open" /\ lentTo[1] = 2
    /\ queued[1] = <<>> /\ socket[1] = [open |-> TRUE, fd |-> 2, out |-> ""]

(***************************************************************************)
(* C28: a connection that has begun to drain, after a decision to close,   *)
(* an error response or a read timeout, is closed in the end, its socket   *)
(* closed and busy cleared, when the pending bytes are written or when a   *)
(* deadline has passed: the loop does not wait for ever for a peer that    *)
(* has stopped reading.                                                    *)
(***************************************************************************)
Draining(h) == socket[h].open /\ fds[socket[h].fd].state \in {"draining", "drained"}

C28_DrainEnds ==
    \A h \in Handlers : Draining(h) ~> (~socket[h].open /\ ~busy[h])

(***************************************************************************)
(* C29: a handler whose busy flag was set becomes not busy when its        *)
(* connection is over, on every path of handleConnection: a busy handler   *)
(* has its call of handleConnection still queued or a socket that is open, *)
(* whose disconnection will clear the flag; so it is too when the          *)
(* descriptor could not be attached to the socket.                         *)
(***************************************************************************)
C29_BusyIsCleared ==
    \A h \in Handlers :
        (busy[h] /\ ~crashed) => (queued[h] # <<>> \/ socket[h].open)

(***************************************************************************)
(* C30: every call of callService, however many calls came before, starts  *)
(* exactly one thread, which runs service(params) for its params, starts   *)
(* no other thread, and returns without throwing.                          *)
(***************************************************************************)
\* the threads that run service() for the n-th call
ServiceThreads(n) == {t \in 1..Len(threads) : threads[t].id = n}

C30_CallServiceStartsOneThread ==
    \A i \in 1..Len(alog) :
        alog[i].by = "callService" =>
            /\ alog[i].what = "returns"
            /\ alog[i].sleeping = 0
            /\ Cardinality(ServiceThreads(alog[i].n)) = 1

(***************************************************************************)
(* C20: a call of read() that leaves the connection open has answered      *)
(* every complete request the socket had buffered when it was called: the  *)
(* requests that arrived together are all answered without more data from  *)
(* the peer.                                                               *)
(***************************************************************************)
Buffered(h) == fds[socket[h].fd].inbuf

Answered(t, seq) == \E i \in 1..Len(t) : t[i][1] = seq /\ t[i][2] = "end"

\* read() has run for handler h and has left the connection open
ReadKeptAlive(h) ==
    /\ socket[h].open /\ socket'[h].open /\ socket'[h].fd = socket[h].fd
    /\ ~crashed'
    /\ Len(fds'[socket[h].fd].inbuf) < Len(Buffered(h))

C20_BufferedRequestsAnswered ==
    [][\A h \in Handlers :
          ReadKeptAlive(h) =>
              /\ fds'[socket[h].fd].inbuf = <<>>
              /\ \A i \in 1..Len(Buffered(h)) :
                     Buffered(h)[i].kind = "request" =>
                         Answered(trace'[h], Buffered(h)[i].seq)]_vars

\* two requests that arrived together were answered and the connection is open
C20_Witness ==
    \E h \in Handlers :
        /\ socket[h].open
        /\ Buffered(h) = <<>>
        /\ \E i \in 1..Len(trace[h]) : trace[h][i] = <<1, "end", 1>>
        /\ \E i \in 1..Len(trace[h]) : trace[h][i] = <<2, "end", 2>>

(***************************************************************************)
(* C31: once read() has decided to close the connection after a response   *)
(* (the request said Connection: close, it was HTTP/1.0, or the decision   *)
(* was revised after the handler returned), nothing more is done on that   *)
(* socket: the decision is the last entry of the connection's trace, the   *)
(* socket is closed with no request in progress, nothing more is written,  *)
(* and a request buffered behind one that asked for the close is never     *)
(* parsed or dispatched.                                                   *)
(***************************************************************************)
\* a whole request that asks for the connection to be closed: lines 268, 278
AsksClose(piece) ==
    /\ piece.kind = "request"
    /\ \/ compareCaseInsensitive(piece.connection, "close")
       \/ compareCaseInsensitive(piece.version, "HTTP/1.0")

\* read() has decided to close the connection of handler h
ClosedByDecision(h) == trace[h] # <<>> /\ trace[h][Len(trace[h])][2] = "close"

C31_NothingAfterCloseDecision ==
    [][\A h \in Handlers :
          /\ \A i \in 1..Len(trace'[h]) :
                 trace'[h][i][2] = "close" =>
                     /\ i = Len(trace'[h])
                     /\ ~socket'[h].open
                     /\ currentRequest'[h].status = "null"
                     /\ readTimer'[h] = TimerStopped
          /\ (socket[h].open /\ ~crashed') =>
                 \A i \in 1..Len(Buffered(h)) :
                     (/\ \E j \in (Len(trace[h]) + 1)..Len(trace'[h]) :
                             /\ trace'[h][j][1] = Buffered(h)[i].seq
                             /\ trace'[h][j][2] = "service"
                      /\ AsksClose(Buffered(h)[i]))
                     => /\ \A j \in 1..Len(trace'[h]) : trace'[h][j][1] <= Buffered(h)[i].seq
                        /\ ClosedByDecision(h)'
                        /\ fds'[socket[h].fd].inbuf = <<>>
          /\ (ClosedByDecision(h) /\ socket'[h].fd = socket[h].fd) =>
                 /\ trace'[h] = trace[h]
                 /\ socket'[h].out = socket[h].out
                 /\ currentRequest'[h] = currentRequest[h]]_vars

\* a request that asked for the close was answered while another request was buffered
\* behind it, and that one was never dispatched
C31_Witness ==
    \E h \in Handlers :
        /\ ~socket[h].open /\ ~crashed
        /\ lentTo[h] # NoDescriptor
        /\ fds[lentTo[h]].sends = 2
        /\ \E i \in 1..Len(trace[h]) : trace[h][i] = <<1, "end", 1>>
        /\ \A i \in 1..Len(trace[h]) : trace[h][i][1] = 1
        /\ trace[h][Len(trace[h])] = <<1, "close", 1>>

(***************************************************************************)
(* C33: readTimer is stopped for as long as a request handler invocation   *)
(* is in flight: from the call of service() until the response has been    *)
(* finalized the timer is not active, however much time passes, no read    *)
(* timeout happens, and the connection is closed by nothing but the        *)
(* decision read() makes after the response.                               *)
(***************************************************************************)
InFlight == phase \in {"service", "caught"}

C33_NoTimeoutWhileHandlerRuns ==
    [][\A h \in Handlers :
          /\ InFlight' => readTimer'[h] = TimerStopped
          /\ InFlight =>
                 /\ ~ReadTimeoutQueued(h)
                 /\ ~TimePasses(h)
                 /\ TimedOut(trace'[h]) = TimedOut(trace[h])
                 /\ (socket[h].open /\ ~socket'[h].open) => ReadFinishes(h)]_vars

\* the request was dispatched on a connection whose timer was active; the handler has
\* written a part of the response and is still running
C33_Witness ==
    /\ phase = "service"
    /\ nops >= 2
    /\ rx.sentHeaders
    /\ socket[1].open
    /\ readTimer[1] = TimerStopped
    /\ fds[1].state = "open"

(***************************************************************************)
(* C32: on each of its paths getSession calls mutex.unlock() only while    *)
(* the calling thread holds the mutex, once for each time it has locked    *)
(* it, and it never returns with the mutex held: a thread that is about to *)
(* unlock is the owner, and a thread that is not inside a function of the  *)
(* store is not.                                                           *)
(***************************************************************************)
\* thread t is at a mutex.unlock() of getSession: lines 65 and 86
AtUnlock(t) == storePc[t] \in {"unlockFound", "unlockCreated"}

C32_UnlocksWhatItHolds ==
    \A t \in Callers :
        /\ AtUnlock(t) => mutexOwner = t
        /\ storePc[t] = "idle" => mutexOwner # t

(***************************************************************************)
(* C17: the operations on the session store's map exclude each other: no   *)
(* two threads are at once between the lock and the return of              *)
(* getSessionId, getSession, removeSession or sessionTimerEvent, and a     *)
(* session that getSessionId found in the map is still there when          *)
(* getSession looks it up.                                                 *)
(***************************************************************************)
InGuardedBody(t) ==
    storePc[t] \in {"contains", "value", "unlockFound", "create", "unlockCreated",
                    "remove", "sweep"}

C17_StoreOperationsAtomic ==
    /\ \A t, u \in StoreThreads : (InGuardedBody(t) /\ InGuardedBody(u)) => t = u
    /\ \A t \in Callers :
           (storePc[t] \in {"getSession", "getSessionGuard", "value"}
                /\ sessionId[t] # NoSession)
               => sessionId[t] \in sessions

(***************************************************************************)
(* C19: a chain installed while a handler is reading a request does not    *)
(* change the chain that is applied to that request.                       *)
(***************************************************************************)
InProgress(request) == request.status \in {"waitForRequestLine", "waitForHeaders"}

C19_ChainOfRequestInProgress ==
    [][\A h \in Handlers :
          (InProgress(currentRequest[h]) /\ InProgress(currentRequest'[h])
               /\ currentRequest'[h].seq = currentRequest[h].seq)
              => currentRequest'[h].chain = currentRequest[h].chain]_vars

(***************************************************************************)
(* C16: when the request handler throws, the exception does not leave the  *)
(* dispatch, the response is finalized (an empty last part is written when *)
(* the last part was not sent) and the connection is closed, not kept      *)
(* alive.                                                                  *)
(***************************************************************************)
HandlerThrew == \E i \in 1..Len(calls) : calls[i].op = "throw"

C16_ThrowFinalizesAndCloses ==
    (phase = "finished" /\ HandlerThrew) =>
        /\ rx.sentLastPart
        /\ closeConnection
        /\ ~rx.sockOpen

(***************************************************************************)
(* C18: once the headers of a response were sent, setStatus and setHeader  *)
(* are refused: the call leaves status and headers of the response as they *)
(* were and puts nothing on the socket.  (The model has no cookies;        *)
(* setCookie, lines 228-235, guards itself as setHeader does.)             *)
(***************************************************************************)
Setters == {"setStatus", "setHeader"}

SetterCalled ==
    /\ phase = "service"
    /\ Len(calls') = Len(calls) + 1
    /\ calls'[Len(calls')].op \in Setters

C18_SettersRefusedAfterHeaders ==
    [][(rx.sentHeaders /\ SetterCalled) =>
          /\ rx'.statusCode = rx.statusCode
          /\ rx'.statusText = rx.statusText
          /\ rx'.headers = rx.headers
          /\ rx'.out = rx.out]_vars

(***************************************************************************)
(* What a response put on the wire, read back from its log.                *)
(***************************************************************************)
HeaderBlocks(x) == {i \in 1..Len(x.log) : x.log[i][1] = "header"}

RECURSIVE BodyFrom(_, _)
\* the body bytes written by log entries i, i+1, ...
BodyFrom(log, i) ==
    IF i > Len(log) THEN ""
    ELSE (IF log[i][1] = "body" THEN log[i][2] ELSE "") \o BodyFrom(log, i + 1)

Body(x) == BodyFrom(x.log, 1)

\* a header map tells the peer Connection: close (names are case-insensitive)
TellsClose(headers) ==
    \E n \in DOMAIN headers :
        toCaseFolded(n) = "connection" /\ toCaseFolded(headers[n]) = "close"

Answering == phase \in {"service", "finished"}

(***************************************************************************)
(* C4: every response has exactly one status-line/header block on the      *)
(* socket, and it is written before any body byte of the response.         *)
(***************************************************************************)
C4_OneHeaderBlockFirst ==
    Answering =>
        /\ Cardinality(HeaderBlocks(rx)) <= 1
        /\ (rx.log # <<>> => rx.log[1][1] = "header")
        /\ (phase = "finished" => Cardinality(HeaderBlocks(rx)) = 1)

(***************************************************************************)
(* C5: every emitted header block uses exactly one framing: Content-Length *)
(* without Transfer-Encoding, or Transfer-Encoding: chunked without        *)
(* Content-Length, or neither together with Connection: close.             *)
(***************************************************************************)
OneFraming(headers) ==
    LET cl == "Content-Length" \in DOMAIN headers
        te == "Transfer-Encoding" \in DOMAIN headers
    IN  \/ cl /\ ~te
        \/ te /\ ~cl /\ headers["Transfer-Encoding"] = "chunked"
        \/ ~cl /\ ~te /\ TellsClose(headers)

C5_ExactlyOneFraming ==
    Answering => \A i \in 1..Len(rx.emitted) : OneFraming(rx.emitted[i])

(***************************************************************************)
(* C6: the framing mode is decided at the first call of write(): last=true *)
(* gives Content-Length = the length of the bytes; otherwise a request     *)
(* that is HTTP/1.0 or a Connection: close on the request or the response  *)
(* gives close-delimited framing without Transfer-Encoding; otherwise      *)
(* chunked with Transfer-Encoding: chunked.  Later writes keep the mode.   *)
(***************************************************************************)
RequestWantsClose ==
    \/ rq.version \in {"HTTP/1.0", "http/1.0"}
    \/ rq.connection \in {"close", "Close"}

DecimalOf(n) ==
    CASE n = 0 -> "0" [] n = 5 -> "5" [] n = 8 -> "8" [] n = 17 -> "17" [] OTHER -> "?"

C6_ModeDecidedAtFirstWrite ==
    (Answering /\ fw.called) =>
        /\ Len(rx.emitted) >= 1
        /\ LET e == rx.emitted[1]
           IN  IF fw.last
               THEN /\ "Content-Length" \in DOMAIN e
                    /\ e["Content-Length"] = DecimalOf(fw.len)
                    /\ "Transfer-Encoding" \notin DOMAIN e
                    /\ ~rx.chunkedMode
               ELSE IF RequestWantsClose \/ TellsClose(fw.before)
               THEN "Transfer-Encoding" \notin DOMAIN e /\ ~rx.chunkedMode
               ELSE /\ "Transfer-Encoding" \in DOMAIN e
                    /\ e["Transfer-Encoding"] = "chunked"
                    /\ rx.chunkedMode
        /\ rx.chunkedMode = fw.chunked

(***************************************************************************)
(* C7: a response whose header block carries Content-Length: N has exactly *)
(* N body bytes on the socket.                                             *)
(***************************************************************************)
RECURSIVE PayloadLength(_, _)
\* the number of bytes the calls ops[i], ops[i+1], ... pass to write()
PayloadLength(ops, i) ==
    IF i > Len(ops) THEN 0
    ELSE (IF ops[i].op = "write" THEN Len(ops[i].a) ELSE 0) + PayloadLength(ops, i + 1)

\* the handler calls setHeader and then write, one call with last=true ends the
\* response, and a Content-Length it sets is the number of bytes it writes
ConsistentHandler ==
    /\ \A i \in 1..Len(calls) : calls[i].op \in {"setHeader", "write"}
    /\ \A i \in 1..Len(calls) : calls[i].last => i = Len(calls)
    /\ \A i, j \in 1..Len(calls) :
           (calls[i].op = "write" /\ calls[j].op = "setHeader") => j < i
    /\ \A i \in 1..Len(calls) :
           (calls[i].op = "setHeader" /\ calls[i].a = "Content-Length") =>
               calls[i].b = DecimalOf(PayloadLength(calls, 1))

C7_BodyMatchesContentLength ==
    (phase = "finished" /\ ConsistentHandler) =>
        \A i \in 1..Len(rx.emitted) :
            "Content-Length" \in DOMAIN rx.emitted[i] =>
                rx.emitted[i]["Content-Length"] = number(Len(Body(rx)), 10)

(***************************************************************************)
(* C8: a chunked response made of write() calls that end with last=true    *)
(* has as its body, for each non-empty write in order, hex(length) CRLF    *)
(* bytes CRLF, then one terminator 0 CRLF CRLF and nothing after it.       *)
(***************************************************************************)
ChunkOf(data) ==
    CASE data = ""                  -> ""
      [] data = "hello"             -> "5\r\nhello\r\n"
      [] data = "0123456789abcdefg" -> "11\r\n0123456789abcdefg\r\n"

RECURSIVE ChunksOf(_, _)
ChunksOf(ops, i) ==
    IF i > Len(ops) THEN ""
    ELSE (IF ops[i].op = "write" THEN ChunkOf(ops[i].a) ELSE "") \o ChunksOf(ops, i + 1)

\* the calls are write() calls, after any setHeader calls, the last one alone has last=true
WritesEndingWithLast(ops) ==
    /\ Len(ops) > 0
    /\ \A i \in 1..Len(ops) : ops[i].op \in {"setHeader", "write"}
    /\ \A i \in 1..Len(ops) : ops[i].last <=> (i = Len(ops))

ChunkedCase == phase = "finished" /\ rx.chunkedMode /\ WritesEndingWithLast(calls)

C8_ChunkedBody ==
    ChunkedCase => Body(rx) = ChunksOf(calls, 1) \o "0\r\n\r\n"

C8_Witness ==
    /\ ChunkedCase
    /\ \E i \in 1..Len(calls) : calls[i].op = "write" /\ calls[i].a = ""
    /\ \E i \in 1..Len(calls) : calls[i].op = "write" /\ Len(calls[i].a) > 15

(***************************************************************************)
(* C9: the initial decision is close exactly when the request's Connection *)
(* header is close or its version is HTTP/1.0 (both case-insensitive), and *)
(* then the response carries Connection: close when service() is called.   *)
(***************************************************************************)
C9_InitialDecision ==
    phase # "complete" =>
        /\ atInvoke.closeConnection = RequestWantsClose
        /\ atInvoke.closeConnection =>
               /\ "Connection" \in DOMAIN atInvoke.headers
               /\ atInvoke.headers["Connection"] = "close"

C9_Witness ==
    /\ phase = "service"
    /\ rq.version = "http/1.0"
    /\ rq.connection = "keep-alive"
    /\ atInvoke.closeConnection

(***************************************************************************)
(* C10: after an initial keep-alive decision the connection is closed when *)
(* the response carries Connection: close or has neither Content-Length    *)
(* nor Transfer-Encoding: chunked, and kept open otherwise; so a           *)
(* close-delimited response, and one whose header block tells the peer     *)
(* Connection: close, is followed by the server closing the connection.    *)
(***************************************************************************)
Chunked(headers) ==
    "Transfer-Encoding" \in DOMAIN headers
        /\ toCaseFolded(headers["Transfer-Encoding"]) = "chunked"

C10_RevisedDecision ==
    phase = "finished" =>
        /\ ~atInvoke.closeConnection =>
              (closeConnection <=>
                  \/ TellsClose(rx.headers)
                  \/ ("Content-Length" \notin DOMAIN rx.headers /\ ~Chunked(rx.headers)))
        /\ \A i \in 1..Len(rx.emitted) :
              LET e == rx.emitted[i]
              IN  \/ TellsClose(e)
                  \/ ("Content-Length" \notin DOMAIN e /\ ~Chunked(e))
                  => ~rx.sockOpen

====
